---- MODULE Spec2Model ----
(***************************************************************************)
(* The MEP calculation engine of MEP-Flow-Designer: the electrical,        *)
(* plumbing, fire-protection and HVAC functions, modelled as operators,    *)
(* a caller that applies them to inputs drawn from bounded sets, and the   *)
(* Calculations component, whose forms run them and save the results.      *)
(*                                                                         *)
(* Numbers.  A JavaScript number is the IEEE 754 double it is, and every   *)
(* operation on numbers (+, -, *, /, Math.sqrt, Math.pow, Math.round,      *)
(* Math.ceil, the comparisons) is the one the engine executes, with its    *)
(* rounding.  Where a function takes or returns a number that lies on a    *)
(* decimal grid (amperes in tenths after Math.round(x * 10) / 10, factors  *)
(* and sizes in hundredths), the operator takes or returns the integer n   *)
(* that stands for the double nearest to n / 10 or n / 100.                *)
(***************************************************************************)
EXTENDS Integers, Sequences, FiniteSets, TLC

VARIABLES
  cur, prev,            \* the caller's last call and the one before it
  fixtureUnitsTable,    \* the exported table fixtureUnits of the plumbing engine
  totalCall,            \* the last call of calculateTotalFixtureUnits
  projects, selectedProjectId, loadingProjects,
  open,                 \* the cards that show their content
  hvacInputs, hvacResult, savingHvac, elecInputs, elecResult, savingElec,
  plumbInputs, plumbResult, savingPlumb, fireInputs, fireResult, savingFire,
  added                 \* the document last passed to addDoc

\* the state of the Calculations component
selection == <<projects, selectedProjectId, loadingProjects>>
hvacForm == <<hvacInputs, hvacResult, savingHvac>>
elecForm == <<elecInputs, elecResult, savingElec>>
plumbForm == <<plumbInputs, plumbResult, savingPlumb>>
fireForm == <<fireInputs, fireResult, savingFire>>
component == <<selection, open, hvacForm, elecForm, plumbForm, fireForm, added>>

\* the state of the engine and its caller
engine == <<cur, prev, fixtureUnitsTable, totalCall>>

vars == <<engine, component>>

(***************************************************************************)
(* JavaScript numbers: binary64 arithmetic                                 *)
(*                                                                         *)
(* A number is the IEEE 754 double [s, m, e] = s * m * 2^e: s the sign (0  *)
(* for zero), m the 53-bit significand as four limbs of 14 bits, least     *)
(* significant first.  Every operation is the exact one rounded to         *)
(* nearest, ties to even, as the processor computes it.  Operators bind    *)
(* their operands to values before use, so each operand is computed once.  *)
(***************************************************************************)

\* the limb base 2^14
Base == 16384

\* the powers 2^0 .. 2^30
PowersOf2 ==
  <<1, 2, 4, 8, 16, 32, 64, 128, 256, 512, 1024, 2048, 4096, 8192, 16384,
    32768, 65536, 131072, 262144, 524288, 1048576, 2097152, 4194304,
    8388608, 16777216, 33554432, 67108864, 134217728, 268435456,
    536870912, 1073741824>>

\* 2^k for 0 <= k <= 30
Pow2(k) == PowersOf2[k + 1]

\* limb j of the natural number a (limbs beyond its length are 0)
Limb(a, j) == IF j >= 1 /\ j <= Len(a) THEN a[j] ELSE 0

RECURSIVE TopLimb(_, _)
\* the highest limb of a at or below limb j that is not 0; 0 if there is none
TopLimb(a, j) == IF j = 0 \/ a[j] # 0 THEN j ELSE TopLimb(a, j - 1)

\* the number of bits of the limb v, 0 < v < 2^14
LimbBits(v) ==
  IF v >= 128
    THEN IF v >= 2048 THEN (IF v >= 8192 THEN 14 ELSE IF v >= 4096 THEN 13 ELSE 12)
         ELSE IF v >= 512 THEN (IF v >= 1024 THEN 11 ELSE 10)
         ELSE IF v >= 256 THEN 9 ELSE 8
  ELSE IF v >= 8 THEN (IF v >= 32 THEN (IF v >= 64 THEN 7 ELSE 6)
                       ELSE IF v >= 16 THEN 5 ELSE 4)
  ELSE IF v >= 4 THEN 3 ELSE IF v >= 2 THEN 2 ELSE 1

\* the number of bits of the natural number a whose highest limb that is
\* not 0 is limb top
BitLenFrom(a, top) == IF top = 0 THEN 0 ELSE 14 * (top - 1) + LimbBits(a[top])

\* the number of bits of the natural number a
BitLen(a) == BitLenFrom(a, TopLimb(a, Len(a)))

\* bit k (from 0) of a
Bit(a, k) == (Limb(a, (k \div 14) + 1) \div Pow2(k % 14)) % 2

\* the n lowest bits of a are all 0
LowBitsZero(a, n) ==
  /\ \A j \in 1 .. (n \div 14) : Limb(a, j) = 0
  /\ Limb(a, (n \div 14) + 1) % Pow2(n % 14) = 0

RECURSIVE ShiftedLeft(_, _, _, _)
\* limbs j .. len of a * 2^n
ShiftedLeft(a, n, j, len) ==
  IF j > len THEN <<>>
  ELSE <<((Limb(a, j - (n \div 14)) * Pow2(n % 14)) % Base)
           + ((Limb(a, j - (n \div 14) - 1) * Pow2(n % 14)) \div Base)>>
         \o ShiftedLeft(a, n, j + 1, len)

\* a * 2^n in len limbs
ShiftLeft(a, n, len) == ShiftedLeft(a, n, 1, len)

RECURSIVE ShiftedRight(_, _, _, _)
\* limbs j .. len of floor(a / 2^n)
ShiftedRight(a, n, j, len) ==
  IF j > len THEN <<>>
  ELSE <<(Limb(a, j + (n \div 14)) \div Pow2(n % 14))
           + (Limb(a, j + (n \div 14) + 1) % Pow2(n % 14)) * Pow2(14 - (n % 14))>>
         \o ShiftedRight(a, n, j + 1, len)

\* floor(a / 2^n) in len limbs
ShiftRight(a, n, len) == ShiftedRight(a, n, 1, len)

RECURSIVE Carried(_, _, _)
\* the limbs of the number whose columns from i on are cols (each column an
\* integer, possibly negative or beyond the base), with carry c coming in
Carried(cols, i, c) ==
  IF i > Len(cols) THEN <<>>
  ELSE CHOOSE r \in {<<t % Base>> \o Carried(cols, i + 1, t \div Base) :
                       t \in {cols[i] + c}} : TRUE

\* a + b and a - b (a >= b) in len limbs
BigAdd(a, b, len) == Carried([j \in 1 .. len |-> Limb(a, j) + Limb(b, j)], 1, 0)
BigSub(a, b, len) == Carried([j \in 1 .. len |-> Limb(a, j) - Limb(b, j)], 1, 0)

\* a < b
BigLess(a, b) ==
  \E j \in DOMAIN a \cup DOMAIN b :
    /\ Limb(a, j) < Limb(b, j)
    /\ \A k \in DOMAIN a \cup DOMAIN b : k > j => Limb(a, k) = Limb(b, k)

\* the number 0
Zero == [s |-> 0, m |-> <<0, 0, 0, 0>>, e |-> 0]

\* s * a * 2^e for a of len > 53 bits whose bits above the lowest len - 53
\* are q: rounded to nearest, ties to even
RoundedUp(s, a, e, len, q) ==
  LET n  == len - 53
      up == Bit(a, n - 1) = 1 /\ (Bit(a, n) = 1 \/ ~LowBitsZero(a, n - 1))
  IN  IF ~up THEN [s |-> s, m |-> q, e |-> e + n]
      ELSE IF q = <<Base - 1, Base - 1, Base - 1, 2047>>
        THEN [s |-> s, m |-> <<0, 0, 0, 1024>>, e |-> e + n + 1]
      ELSE [s |-> s, m |-> Carried(<<q[1] + 1, q[2], q[3], q[4]>>, 1, 0), e |-> e + n]

\* s * a * 2^e rounded to nearest, ties to even, for a of len bits
Rounded(s, a, e, len) ==
  IF len = 0 \/ s = 0 THEN Zero
  ELSE IF len <= 53 THEN [s |-> s, m |-> ShiftLeft(a, 53 - len, 4), e |-> e - (53 - len)]
  ELSE CHOOSE r \in {RoundedUp(s, a, e, len, q) : q \in {ShiftRight(a, len - 53, 4)}} : TRUE

\* s * a0 * 2^e rounded to nearest, ties to even  (a0 >= 0 in at most 9 limbs)
RoundBig(s, a0, e) ==
  CHOOSE r \in {Rounded(s, a, e, BitLen(a)) : a \in {a0}} : TRUE

\* the integer n, |n| < 2^31
FNum(n) ==
  LET a == IF n < 0 THEN 0 - n ELSE n
  IN  RoundBig(IF n < 0 THEN -1 ELSE IF n = 0 THEN 0 ELSE 1,
               <<a % Base, (a \div Base) % Base, a \div (Base * Base), 0>>, 0)

\* -x
FNeg(x) == [s |-> 0 - x.s, m |-> x.m, e |-> x.e]

\* the columns of the product of two significands
MulCols(a, b) ==
  [k \in 1 .. 8 |->
     Limb(a, 1) * Limb(b, k) + Limb(a, 2) * Limb(b, k - 1)
       + Limb(a, 3) * Limb(b, k - 2) + Limb(a, 4) * Limb(b, k - 3)]

\* x * y
FMul(x0, y0) ==
  CHOOSE r \in {IF x.s = 0 \/ y.s = 0 THEN Zero
                ELSE RoundBig(x.s * y.s, Carried(MulCols(x.m, y.m), 1, 0), x.e + y.e) :
                  x \in {x0}, y \in {y0}} : TRUE

\* hi + lo for hi.e >= lo.e, neither zero, with a = hi.m * 2^(hi.e - lo.e)
AddAligned(hi, lo, a) ==
  IF hi.s = lo.s THEN RoundBig(hi.s, BigAdd(a, lo.m, 9), lo.e)
  ELSE IF BigLess(a, lo.m) THEN RoundBig(lo.s, BigSub(lo.m, a, 9), lo.e)
  ELSE RoundBig(hi.s, BigSub(a, lo.m, 9), lo.e)

\* hi + lo for hi.e >= lo.e, neither zero
AddOrdered(hi, lo) ==
  IF hi.e - lo.e > 60 THEN hi
  ELSE CHOOSE r \in {AddAligned(hi, lo, a) : a \in {ShiftLeft(hi.m, hi.e - lo.e, 9)}} : TRUE

\* x + y
FAdd(x0, y0) ==
  CHOOSE r \in {IF x.s = 0 THEN y
                ELSE IF y.s = 0 THEN x
                ELSE IF x.e >= y.e THEN AddOrdered(x, y)
                ELSE AddOrdered(y, x) : x \in {x0}, y \in {y0}} : TRUE

\* x - y
FSub(x0, y0) == FAdd(x0, FNeg(y0))

\* x < y
FLess(x0, y0) ==
  \E x \in {x0}, y \in {y0} :
    IF x.s # y.s THEN x.s < y.s
    ELSE IF x.s = 0 THEN FALSE
    ELSE IF x.s > 0 THEN x.e < y.e \/ (x.e = y.e /\ BigLess(x.m, y.m))
    ELSE y.e < x.e \/ (x.e = y.e /\ BigLess(y.m, x.m))

\* r - q * d for r >= q * d, in 5 limbs
Remainder(r, q, d) ==
  Carried(<<Limb(r, 1) - q * d[1], Limb(r, 2) - q * d[2], Limb(r, 3) - q * d[3],
            Limb(r, 4) - q * d[4], Limb(r, 5)>>, 1, 0)

RECURSIVE QuotientDigit(_, _, _)
\* [q, r]: the quotient and the remainder of r0 / d, given a q that is not
\* above the quotient and the r that it leaves
QuotientDigit(q, r, d) ==
  IF BigLess(r, d) THEN [q |-> q, r |-> r]
  ELSE CHOOSE res \in {QuotientDigit(q + 1, t, d) : t \in {BigSub(r, d, 5)}} : TRUE

\* [q, r]: the quotient q < 2^14 and the remainder of r * 2^14 / d for
\* r < d < 2^53 <= 2 * d; q is estimated from the top bits of r and d
NextDigit(r, d) ==
  CHOOSE res \in
    {QuotientDigit(q, Remainder(<<0>> \o r, q, d), d) :
       q \in {(r[4] * 524288 + r[3] * 32 + (r[2] \div 512))
                \div (d[4] * 32 + (d[3] \div 512) + 1)}} : TRUE

RECURSIVE QuotientLimbs(_, _, _)
\* the next j limbs of the quotient r / d (r < d), least significant first,
\* and below them 1 if a remainder is left and 0 if none is
QuotientLimbs(r, d, j) ==
  IF j = 0 THEN <<IF BitLen(r) = 0 THEN 0 ELSE 1>>
  ELSE CHOOSE res \in {QuotientLimbs(SubSeq(b.r, 1, 4), d, j - 1) \o <<b.q>> :
                         b \in {NextDigit(r, d)}} : TRUE

\* x / y for y # 0: the bit before the point of the quotient of the
\* significands, its next 56 bits, and below them whether a remainder is left
FDiv(x0, y0) ==
  CHOOSE r \in
    {IF x.s = 0 THEN Zero
     ELSE IF BigLess(x.m, y.m)
       THEN RoundBig(x.s * y.s, QuotientLimbs(x.m, y.m, 4), x.e - y.e - 70)
     ELSE RoundBig(x.s * y.s, QuotientLimbs(BigSub(x.m, y.m, 4), y.m, 4) \o <<1>>,
                   x.e - y.e - 70) :
       x \in {x0}, y \in {y0}} : TRUE

\* x / n for an integer n # 0, |n| < 2^31
FDivInt(x, n) == FDiv(x, FNum(n))

\* the decimal literal n / d  (d # 0): the double nearest to it
FDec(n, d) == FDiv(FNum(n), FNum(d))

RECURSIVE IntegerRoot(_, _, _)
\* the integer square root of n < 2^28, r being its bits above bit k
IntegerRoot(n, k, r) ==
  IF k < 0 THEN r
  ELSE CHOOSE res \in
         {IntegerRoot(n, k - 1, t) :
            t \in {IF (r + Pow2(k)) * (r + Pow2(k)) <= n THEN r + Pow2(k) ELSE r}} : TRUE

\* (2 * root * Base + d) * d for a root of at most 3 limbs and a digit d:
\* what appending the digit d to the root takes from the remainder
RootTimes(root, d) ==
  Carried(<<d * d, 2 * Limb(root, 1) * d, 2 * Limb(root, 2) * d,
            2 * Limb(root, 3) * d, 0, 0, 0>>, 1, 0)

RECURSIVE RootDigit(_, _, _)
\* the largest digit from d on that the remainder rem allows after root
RootDigit(root, rem, d) ==
  IF d < Base - 1 /\ ~BigLess(rem, RootTimes(root, d + 1))
  THEN RootDigit(root, rem, d + 1)
  ELSE d

\* a digit the remainder v.rem allows after v.root when two more limbs are
\* appended to it, at most a few below the largest: the quotient of the
\* leading limbs of v.rem * Base by more than those of 2 * v.root + 1
RootEstimate(v) ==
  LET top == Len(v.root)
      q   == (Limb(v.rem, top + 1) * Base * Base + Limb(v.rem, top) * Base
                + Limb(v.rem, top - 1)) \div (2 * v.root[top] + 2)
  IN  IF q > Base - 1 THEN Base - 1 ELSE q

\* the root with the digit d appended, and what is left of the remainder rem
RootWith(v, rem, d) ==
  [root |-> <<d>> \o v.root,
   rem  |-> SubSeq(BigSub(rem, RootTimes(v.root, d), 7), 1, 5)]

\* [root, rem] after the next two limbs hi, lo of the radicand, from the
\* root v.root of the limbs above them and the remainder v.rem they leave
RootStep(v0, hi, lo) ==
  CHOOSE res \in
    {RootWith(v, rem, RootDigit(v.root, rem, RootEstimate(v))) :
       v \in {v0}, rem \in {<<lo, hi>> \o v0.rem}} : TRUE

\* [root, rem]: the integer square root, 4 limbs, of the 8 limbs a, and
\* what it leaves
RootLimbs(a) ==
  LET first(r) == [root |-> <<r>>,
                   rem  |-> Carried(<<a[8] * Base + a[7] - r * r, 0, 0, 0, 0>>, 1, 0)]
  IN  RootStep(RootStep(RootStep(first(IntegerRoot(a[8] * Base + a[7], 13, 0)),
                                 a[6], a[5]), a[4], a[3]), a[2], a[1])

\* Math.sqrt of m * 2^e with e - k even: the root of m * 2^k, 56 bits,
\* and below it whether the root is inexact
RootOf(m, e, k) ==
  CHOOSE v \in
    {RoundBig(1, BigAdd(ShiftLeft(t.root, 1, 5),
                        <<IF BitLen(t.rem) = 0 THEN 0 ELSE 1>>, 5),
              ((e - k) \div 2) - 1) :
       t \in {RootLimbs(a) : a \in {ShiftLeft(m, k, 8)}}} : TRUE

\* Math.sqrt(x) for x >= 0
FSqrt(x0) ==
  CHOOSE r \in
    {IF x.s = 0 THEN Zero
     ELSE IF x.e % 2 = 0 THEN RootOf(x.m, x.e, 58)
     ELSE RootOf(x.m, x.e, 59) : x \in {x0}} : TRUE

\* floor(2 * |x|) for |x| < 2^30
TwiceFloor(x) ==
  LET t == ShiftRight(x.m, 0 - x.e - 1, 4)
  IN  IF 0 - x.e - 1 >= 56 THEN 0 ELSE t[1] + t[2] * Base + t[3] * Base * Base

\* 2 * |x| is not an integer
TwiceFraction(x) == 0 - x.e - 1 >= 56 \/ ~LowBitsZero(x.m, 0 - x.e - 1)

\* Math.round(x), |x| < 2^30: floor(x + 0.5)
FRound(x0) ==
  CHOOSE r \in
    {IF x.s = 0 THEN 0
     ELSE IF x.s > 0 THEN (TwiceFloor(x) + 1) \div 2
     ELSE IF TwiceFraction(x) THEN 0 - ((TwiceFloor(x) + 1) \div 2)
     ELSE 0 - (TwiceFloor(x) \div 2) : x \in {x0}} : TRUE

\* Math.round(x) for x >= 0 of any size, as a number
FRoundBig(x0) ==
  CHOOSE r \in
    {IF x.s = 0 \/ x.e >= 0 THEN x
     ELSE IF 0 - x.e - 1 >= 56 THEN Zero
     ELSE RoundBig(1, ShiftRight(BigAdd(ShiftRight(x.m, 0 - x.e - 1, 4), <<1>>, 5),
                                 1, 4), 0) : x \in {x0}} : TRUE

\* Math.ceil(x), |x| < 2^30
FCeil(x0) ==
  CHOOSE r \in
    {IF x.s = 0 THEN 0
     ELSE IF x.s < 0 THEN 0 - (TwiceFloor(x) \div 2)
     ELSE IF TwiceFloor(x) % 2 = 1 \/ TwiceFraction(x) THEN (TwiceFloor(x) \div 2) + 1
     ELSE TwiceFloor(x) \div 2 : x \in {x0}} : TRUE

\* Math.max(0, n) on integers
Max0(n) == IF n < 0 THEN 0 ELSE n

\* Math.max(0, x)
FMax0(x0) == CHOOSE r \in {IF x.s < 0 THEN Zero ELSE x : x \in {x0}} : TRUE

\* a result that is a number, and the result NaN
Number(n) == [nan |-> FALSE, val |-> n]
NaN == [nan |-> TRUE, val |-> 0]


(***************************************************************************)
(* Math.pow                                                                *)
(*                                                                         *)
(* The value of Math.pow is implementation-approximated (ECMA-262,         *)
(* 21.3.2.26), and the engines differ in the last bit of it: for the same  *)
(* arguments one build returns the double below the power and another the  *)
(* double above it.  MathPow(x, y) is the set of the values a build may    *)
(* return, the doubles next to the power x^y: every implementation whose   *)
(* error is below one unit in the last place returns one of them.  Within  *)
(* one build Math.pow is a function.                                       *)
(*                                                                         *)
(* The power is computed in fixed point: a real a >= 0 is held as the 7    *)
(* limbs of floor(a * 2^84), and every operation truncates.  The error of  *)
(* the computed power stays below 2^12 units of 2^-84 for the arguments    *)
(* in use, 2^-32 <= x < 2^31 and 2^-32 <= y < 8.                           *)
(***************************************************************************)

\* the fixed-point numbers 0, 1 and 2
XZero == <<0, 0, 0, 0, 0, 0, 0>>
XOne == <<0, 0, 0, 0, 0, 0, 1>>
XTwo == <<0, 0, 0, 0, 0, 0, 2>>

\* column k of the product of a, of 7 limbs, and b, b written after 6
\* limbs that are 0 and before 7 more
XCol(a, b, k) ==
  a[1] * b[k + 6] + a[2] * b[k + 5] + a[3] * b[k + 4] + a[4] * b[k + 3]
    + a[5] * b[k + 2] + a[6] * b[k + 1] + a[7] * b[k]

\* the columns of the product of two numbers of 7 limbs
XCols(a, b0) ==
  CHOOSE cols \in
    {<<XCol(a, b, 1), XCol(a, b, 2), XCol(a, b, 3), XCol(a, b, 4), XCol(a, b, 5),
       XCol(a, b, 6), XCol(a, b, 7), XCol(a, b, 8), XCol(a, b, 9), XCol(a, b, 10),
       XCol(a, b, 11), XCol(a, b, 12), XCol(a, b, 13), 0>> :
       b \in {<<0, 0, 0, 0, 0, 0>> \o b0 \o <<0, 0, 0, 0, 0, 0, 0>>}} : TRUE

\* a * b for a * b < 2^14
XMul(a0, b0) ==
  CHOOSE r \in {SubSeq(Carried(XCols(a, b), 1, 0), 7, 13) :
                  a \in {a0}, b \in {b0}} : TRUE

\* a * n for an integer 0 <= n < 2^16 and a * n < 2^14
XTimes(a, n) == Carried([j \in 1 .. 7 |-> a[j] * n], 1, 0)

RECURSIVE XDividedFrom(_, _, _, _)
\* limbs 1 .. j of a / n, rem being what the limbs above j leave
XDividedFrom(a, n, j, rem) ==
  IF j = 0 THEN <<>>
  ELSE CHOOSE r \in {XDividedFrom(a, n, j - 1, t % n) \o <<t \div n>> :
                       t \in {rem * Base + a[j]}} : TRUE

\* a / n for an integer 0 < n < 2^14
XDivInt(a, n) == XDividedFrom(a, n, 7, 0)

RECURSIVE XNewton(_, _, _)
\* 1 / d from an estimate r of it, by steps of Newton's iteration, each of
\* which doubles the number of bits that are right
XNewton(d, r, steps) ==
  IF steps = 0 THEN r
  ELSE CHOOSE v \in
         {XNewton(d, XMul(t, BigSub(XTwo, XMul(d, t), 7)), steps - 1) :
            t \in {r}} : TRUE

\* 1 / d for 2 <= d <= 3; the first estimate, of 15 bits, is the quotient
\* of 2^30 by the leading bits of d
XInverse(d0) ==
  CHOOSE v \in
    {XNewton(d, ShiftLeft(<<q % Base, q \div Base>>, 68, 7), 3) :
       d \in {d0}, q \in {Pow2(30) \div (d0[7] * Base + d0[6])}} : TRUE

RECURSIVE XOddSeries(_, _, _, _)
\* the sum of u^j / (2 * j + 1) over all j, for u <= 1/9: sum is the sum
\* of the terms before term i, and p is u^i
XOddSeries(u, p, i, sum) ==
  IF BitLen(p) = 0 THEN sum
  ELSE CHOOSE s \in
         {XOddSeries(u, t[1], i + 1, t[2]) :
            t \in {<<XMul(p, u), BigAdd(sum, XDivInt(p, 2 * i + 1), 7)>>}} : TRUE

\* atanh(t) = t * (1 + t^2 / 3 + t^4 / 5 + ...) for 0 <= t <= 1/3
XAtanh(t0) ==
  CHOOSE v \in
    {XMul(t, XOddSeries(u, XOne, 0, XZero)) :
       t \in {t0}, u \in {XMul(t0, t0)}} : TRUE

\* ln f = 2 * atanh((f - 1) / (f + 1)) for 1 <= f <= 2
XLog(f0) ==
  CHOOSE v \in
    {ShiftLeft(XAtanh(XMul(BigSub(f, XOne, 7), XInverse(BigAdd(f, XOne, 7)))), 1, 7) :
       f \in {f0}} : TRUE

\* ln 2
Ln2 == XLog(XTwo)

RECURSIVE XExpSeries(_, _, _, _)
\* the sum of r^j / j! over all j: sum is the sum of the terms before term
\* k, and term is r^k / k!
XExpSeries(r, term, k, sum) ==
  IF BitLen(term) = 0 THEN sum
  ELSE CHOOSE s \in
         {XExpSeries(r, t[1], k + 1, t[2]) :
            t \in {<<XDivInt(XMul(term, r), k + 1), BigAdd(sum, term, 7)>>}} : TRUE

\* e^r for 0 <= r <= ln 2
XExp(r) == XExpSeries(r, XOne, 0, XZero)

\* ln x for a number x > 0, x = f * 2^k with 1 <= f < 2: its sign and its
\* absolute value
LogOf(x) ==
  IF x.e + 52 >= 0
  THEN [neg |-> FALSE,
        abs |-> BigAdd(XTimes(Ln2, x.e + 52), XLog(ShiftLeft(x.m, 32, 7)), 7)]
  ELSE [neg |-> TRUE,
        abs |-> BigSub(XTimes(Ln2, 0 - (x.e + 52)), XLog(ShiftLeft(x.m, 32, 7)), 7)]

RECURSIVE XQuotient(_, _)
\* floor(w / ln 2), from a q that is not above it
XQuotient(w, q) ==
  IF BigLess(w, XTimes(Ln2, q + 1)) THEN q ELSE XQuotient(w, q + 1)

\* [exp, n] with e^w = exp * 2^n (e^-w if neg) and 1 <= exp <= 2, for
\* q = floor(w / ln 2)
ExpOf(neg, w, q) ==
  IF ~neg THEN [exp |-> XExp(BigSub(w, XTimes(Ln2, q), 7)), n |-> q]
  ELSE [exp |-> XExp(BigSub(XTimes(Ln2, q + 1), w, 7)), n |-> 0 - (q + 1)]

\* [exp, n] with x^y = e^(y * ln x) = exp * 2^n, for the logarithm l of x
\* and w = y * |ln x|
PowerFrom(l, w) ==
  ExpOf(l.neg, w, XQuotient(w, (w[7] * Base + w[6]) \div (Ln2[6] + 1)))

\* [exp, n] with x^y = exp * 2^n, for x > 0 and y > 0
PowerOf(x, y) ==
  CHOOSE p \in
    {PowerFrom(lw[1], lw[2]) :
       lw \in {<<l, XMul(ShiftLeft(y.m, 84 + y.e, 7), l.abs)>> :
                 l \in {LogOf(x)}}} : TRUE

\* the double after the double x > 0
NextUp(x) ==
  IF x.m = <<Base - 1, Base - 1, Base - 1, 2047>>
  THEN [s |-> 1, m |-> <<0, 0, 0, 1024>>, e |-> x.e + 1]
  ELSE [s |-> 1, m |-> Carried(<<x.m[1] + 1, x.m[2], x.m[3], x.m[4]>>, 1, 0), e |-> x.e]

\* the doubles next to a * 2^e for a of len > 53 bits: the largest that is
\* not above it and, unless that is a * 2^e itself, the one after it
DoublesAround(a, e, len) ==
  LET below == [s |-> 1, m |-> ShiftRight(a, len - 53, 4), e |-> e + len - 53]
  IN  IF LowBitsZero(a, len - 53) THEN {below} ELSE {below, NextUp(below)}

\* the doubles next to the two ends of the interval that holds
\* p.exp * 2^p.n, the computed power and its error
PowerDoubles(p) ==
  UNION {DoublesAround(v, p.n - 84, BitLen(v)) :
           v \in {BigSub(p.exp, <<4096>>, 7), BigAdd(p.exp, <<4096>>, 7)}}

\* Math.pow(x, y) for x >= 0 and y > 0 not an integer: the values a build
\* may return
MathPow(x0, y0) ==
  CHOOSE r \in
    {IF x.s = 0 THEN {Zero}
     ELSE IF x = FNum(1) THEN {x}
     ELSE CHOOSE d \in {PowerDoubles(p) : p \in {PowerOf(x, y0)}} : TRUE :
       x \in {x0}} : TRUE

\* the least of a set of numbers
Least(values) == CHOOSE r \in values : \A t \in values : ~FLess(t, r)

(***************************************************************************)
(* A build's Math.pow                                                      *)
(*                                                                         *)
(* An engine function that calls Math.pow takes the build's Math as its    *)
(* last argument: math is the set of the <<x, y, Math.pow(x, y)>> for the   *)
(* arguments <<x, y>> the function calls Math.pow with, one set for each   *)
(* choice among the values MathPow allows.  What a call returns depends on *)
(* some of these values only, and the call returns the same in every       *)
(* build that has them.                                                    *)
(***************************************************************************)

\* Math.pow(x, y) in the build math, which holds it for every <<x, y>> a
\* function of the engine reaches; for others, the least value
Pow(math, x0, y0) ==
  CHOOSE r \in
    {IF \E f \in math : f[1] = x /\ f[2] = y
     THEN (CHOOSE f \in math : f[1] = x /\ f[2] = y)[3]
     ELSE Least(MathPow(x, y)) : x \in {x0}, y \in {y0}} : TRUE

\* the builds that are math on the arguments it holds and differ in
\* Math.pow(x, y), one of values
WithPow(math, x, y, values) ==
  IF \E f \in math : f[1] = x /\ f[2] = y THEN {math}
  ELSE {math \cup {<<x, y, r>>} : r \in values}

RECURSIVE WithPows(_, _)
\* the builds that are one of maths on the arguments it holds and differ in
\* Math.pow on the arguments <<x, y>> of the sequence calls
WithPows(maths, calls) ==
  IF calls = <<>> THEN maths
  ELSE CHOOSE builds \in
         {WithPows(UNION {WithPow(m, cv[1][1], cv[1][2], cv[2]) : m \in maths},
                   Tail(calls)) :
            cv \in {<<c, MathPow(c[1], c[2])>> : c \in {Head(calls)}}} : TRUE

\* two calls may have run in one build: a and b are the values of Math.pow
\* the one and the other depend on, and Math.pow returns one value for the
\* arguments both hold
SameBuild(a, b) ==
  \A f \in a, g \in b : (f[1] = g[1] /\ f[2] = g[2]) => f[3] = g[3]

\* the record r without its field math
Apart(r) == [r EXCEPT !.math = {}]

\* the records of a set, the call in every build, made in a build that
\* has the values of math
Having(math, records) == {q \in records : math \subseteq q.math}

\* the values of Math.pow the record r depends on: values of its build such
\* that every build that has them gives the record, had by as many builds
\* as can be, and as few as can be
Needed(r, records) ==
  CHOOSE math \in
    {math \in SUBSET r.math : \A q \in Having(math, records) : Apart(q) = Apart(r)} :
    \A other \in
      {other \in SUBSET r.math : \A q \in Having(other, records) : Apart(q) = Apart(r)} :
      \/ Cardinality(Having(other, records)) < Cardinality(Having(math, records))
      \/ /\ Cardinality(Having(other, records)) = Cardinality(Having(math, records))
         /\ Cardinality(math) <= Cardinality(other)

\* the records of one call in every build, each with math reduced to the
\* values it depends on
Merged(records0) ==
  CHOOSE merged \in
    {{[r EXCEPT !.math = Needed(r, records)] : r \in records} :
       records \in {records0}} : TRUE

\* |x|
FAbs(x) == [s |-> x.s * x.s, m |-> x.m, e |-> x.e]

\* Math.sqrt(3) and Math.PI
Sqrt3 == FSqrt(FNum(3))
Pi == [s |-> 1, m |-> <<11544, 4368, 8117, 1608>>, e |-> -51]


\* String(x) for x = n / 100, n >= 0 with at most two decimals: the
\* shortest decimal, "0.5", "1", "1.25"
NumberToString(n) ==
  LET whole == ToString(n \div 100)
      frac  == n % 100
  IN  IF frac = 0 THEN whole
      ELSE IF frac % 10 = 0 THEN whole \o "." \o ToString(frac \div 10)
      ELSE IF frac < 10 THEN whole \o ".0" \o ToString(frac)
      ELSE whole \o "." \o ToString(frac)
(***************************************************************************)
(* JavaScript objects and arrays                                           *)
(***************************************************************************)

\* the set of elements of a sequence
Range(s) == {s[i] : i \in DOMAIN s}

\* Array.prototype.find, given for each element of the array whether it
\* passes the test: the index of the first element that passes, 0 (find
\* returns undefined) when none passes
FindIndex(passes) ==
  LET hits == {i \in DOMAIN passes : passes[i]}
  IN  IF hits = {} THEN 0 ELSE CHOOSE i \in hits : \A j \in hits : i <= j

RECURSIVE AscendingByIdx(_, _)
\* the entries of obj at the positions in todo, by ascending integer key
AscendingByIdx(obj, todo) ==
  IF todo = {} THEN <<>>
  ELSE LET i == CHOOSE a \in todo : \A b \in todo : obj[a].idx <= obj[b].idx
       IN  <<obj[i]>> \o AscendingByIdx(obj, todo \ {i})

\* Object.entries(obj) for an object written as the sequence obj of its
\* properties in insertion order, idx the integer value of a key that is a
\* canonical array index and -1 for any other key: own property keys are
\* enumerated integer keys first, in ascending numeric order, then the
\* string keys in insertion order
ObjectEntries(obj) ==
  AscendingByIdx(obj, {i \in DOMAIN obj : obj[i].idx >= 0})
    \o SelectSeq(obj, LAMBDA en : en.idx < 0)

\* names every object literal inherits from Object.prototype: obj[name] is
\* a function (an object for __proto__), truthy, and NaN in arithmetic
ObjectPrototypeKeys ==
  {"constructor", "__defineGetter__", "__defineSetter__", "hasOwnProperty",
   "__lookupGetter__", "__lookupSetter__", "isPrototypeOf",
   "propertyIsEnumerable", "toString", "valueOf", "__proto__", "toLocaleString"}

\* str.replace(suffix, '') for a string that is a member of stems followed
\* by suffix (the stem is left) or that does not contain suffix (unchanged)
RemoveSuffix(str, suffix, stems) ==
  LET hits == {k \in stems : str = k \o suffix}
  IN  IF hits = {} THEN str ELSE CHOOSE k \in hits : TRUE

\* the size, in hundredths of an inch, that a label (a number followed by
\* the inch mark) gives among the sizes of a ladder; 0 when it gives none
InchSize(label, ladder) ==
  LET hits == {s \in ladder : label = NumberToString(s) \o "\""}
  IN  IF hits = {} THEN 0 ELSE CHOOSE s \in hits : TRUE

(***************************************************************************)
(* Electrical engine (lib/calculations/electrical.ts)                      *)
(***************************************************************************)

\* calculateDemandLoad(connectedLoad, demandFactor), demandFactor in
\* hundredths
calculateDemandLoad(connectedLoad, df100) ==
  FRound(FMul(FNum(connectedLoad), FDec(df100, 100)))

\* calculateCurrent with the three-phase branch lost: the single-phase
\* formula for every phases
calculateCurrentSinglePhase(load, voltage, phases, pf100) ==
  FRound(FMul(FDiv(FNum(load), FMul(FNum(voltage), FDec(pf100, 100))), FNum(10)))

\* calculateCurrent(load, voltage, phases, powerFactor) for integer load
\* (watts) and voltage > 0 and the powerFactor pf100 / 100 > 0: the result
\* Math.round(current * 10) / 10 in tenths of an ampere
calculateCurrent(load, voltage, phases, pf100) ==
  LET current ==
        IF phases = 3
        THEN FDiv(FNum(load), FMul(FMul(Sqrt3, FNum(voltage)), FDec(pf100, 100)))
        ELSE FDiv(FNum(load), FMul(FNum(voltage), FDec(pf100, 100)))
  IN  FRound(FMul(current, FNum(10)))

\* standardSizes of calculateBreakerSize
BreakerSizes ==
  <<15, 20, 25, 30, 35, 40, 45, 50, 60, 70, 80, 90, 100,
    110, 125, 150, 175, 200, 225, 250, 300, 350, 400,
    450, 500, 600, 700, 800, 1000, 1200>>

\* the rating test with > for >=
CoversRatingStrict(size, current10, isContinuous) ==
  IF isContinuous THEN size * 8 > current10 ELSE size * 10 > current10

\* size >= requiredRating, requiredRating = current / 0.8 for a continuous
\* load and current otherwise; current10 is the current in tenths.  For a
\* current of whole tenths the quotient current / 0.8 lies on the same side
\* of every size as the exact 10 * current10 / 8.
CoversRating(size, current10, isContinuous) ==
  IF isContinuous THEN size * 8 >= current10 ELSE size * 10 >= current10

\* calculateBreakerSize(current, isContinuous)
calculateBreakerSize(current10, isContinuous) ==
  LET i == FindIndex([k \in DOMAIN BreakerSizes |->
                           CoversRating(BreakerSizes[k], current10, isContinuous)])
  IN  IF i # 0 THEN BreakerSizes[i] ELSE BreakerSizes[Len(BreakerSizes)]

\* the sizes calculateBreakerSize's find examines, in order
BreakerScan(current10, isContinuous) ==
  LET i == FindIndex([k \in DOMAIN BreakerSizes |->
                           CoversRating(BreakerSizes[k], current10, isContinuous)])
  IN  IF i # 0 THEN SubSeq(BreakerSizes, 1, i) ELSE BreakerSizes

\* copperAmpacity75C, the object literal in the order it is written
copperAmpacity75C ==
  << [key |-> "14",   idx |-> 14,   amp |-> 20],
     [key |-> "12",   idx |-> 12,   amp |-> 25],
     [key |-> "10",   idx |-> 10,   amp |-> 35],
     [key |-> "8",    idx |-> 8,    amp |-> 50],
     [key |-> "6",    idx |-> 6,    amp |-> 65],
     [key |-> "4",    idx |-> 4,    amp |-> 85],
     [key |-> "3",    idx |-> 3,    amp |-> 100],
     [key |-> "2",    idx |-> 2,    amp |-> 115],
     [key |-> "1",    idx |-> 1,    amp |-> 130],
     [key |-> "1/0",  idx |-> -1,   amp |-> 150],
     [key |-> "2/0",  idx |-> -1,   amp |-> 175],
     [key |-> "3/0",  idx |-> -1,   amp |-> 200],
     [key |-> "4/0",  idx |-> -1,   amp |-> 230],
     [key |-> "250",  idx |-> 250,  amp |-> 255],
     [key |-> "300",  idx |-> 300,  amp |-> 285],
     [key |-> "350",  idx |-> 350,  amp |-> 310],
     [key |-> "400",  idx |-> 400,  amp |-> 335],
     [key |-> "500",  idx |-> 500,  amp |-> 380],
     [key |-> "600",  idx |-> 600,  amp |-> 420],
     [key |-> "750",  idx |-> 750,  amp |-> 475],
     [key |-> "1000", idx |-> 1000, amp |-> 545] >>

\* Math.round(amp * 0.62)
AluminumAmpacity(amp) == (amp * 62 + 50) \div 100

\* Object.fromEntries(Object.entries(copperAmpacity75C).map(...)): the
\* entries of the copper object with the ampacity mapped, inserted in the
\* order Object.entries gives them
aluminumAmpacity ==
  LET en == ObjectEntries(copperAmpacity75C)
  IN  [i \in DOMAIN en |-> [en[i] EXCEPT !.amp = AluminumAmpacity(en[i].amp)]]

\* ampacityTable
ampacityTable(material) ==
  IF material = "copper" THEN copperAmpacity75C ELSE aluminumAmpacity

\* tempFactors[tempRating] || 1.0, in hundredths
tempFactor(tempRating) ==
  CASE tempRating = 60 -> 88
    [] tempRating = 75 -> 100
    [] tempRating = 90 -> 104
    [] OTHER -> 100

\* the ampacity test with <= for >=
CoversAmpacityInverted(amp, tf100, current10) == amp * tf100 * 8 <= current10 * 100

\* the ampacity test against the current itself, without the 80% derating
CoversAmpacityUnderated(amp, tf100, current10) == amp * tf100 * 10 >= current10 * 100

\* ampacity * tempFactor >= requiredAmpacity, requiredAmpacity = current /
\* 0.8; for a current of whole tenths the product and the quotient compare
\* as the exact amp * tf100 / 100 and 10 * current10 / 8 do
CoversAmpacity(amp, tf100, current10) == amp * tf100 * 8 >= current10 * 100

\* Object.entries of the two ampacity tables
copperEntries == ObjectEntries(copperAmpacity75C)
aluminumEntries == ObjectEntries(aluminumAmpacity)

\* Object.entries(ampacityTable): the entries the for-of loop of
\* calculateWireSize goes through
WireEntries(material) ==
  IF ampacityTable(material) = copperAmpacity75C THEN copperEntries ELSE aluminumEntries

\* calculateWireSize(current, material, tempRating)
calculateWireSize(current10, material, tempRating) ==
  LET en == WireEntries(material)
      i  == FindIndex([k \in DOMAIN en |->
                           CoversAmpacity(en[k].amp, tempFactor(tempRating), current10)])
  IN  IF i # 0 THEN en[i].key \o " AWG" ELSE "1000 kcmil"

\* the corrected ampacities (in hundredths) the loop of calculateWireSize
\* examines, in order
WireScan(current10, material, tempRating) ==
  LET en == WireEntries(material)
      i  == FindIndex([k \in DOMAIN en |->
                           CoversAmpacity(en[k].amp, tempFactor(tempRating), current10)])
      th == [k \in DOMAIN en |-> en[k].amp * tempFactor(tempRating)]
  IN  IF i # 0 THEN SubSeq(th, 1, i) ELSE th

\* resistancePer1000ft, in ten-thousandths of an ohm
resistancePer1000ft ==
  << [key |-> "14",  ohms |-> 30700], [key |-> "12",  ohms |-> 19300],
     [key |-> "10",  ohms |-> 12100], [key |-> "8",   ohms |-> 7640],
     [key |-> "6",   ohms |-> 4910],  [key |-> "4",   ohms |-> 3080],
     [key |-> "3",   ohms |-> 2450],  [key |-> "2",   ohms |-> 1940],
     [key |-> "1",   ohms |-> 1540],  [key |-> "1/0", ohms |-> 1220],
     [key |-> "2/0", ohms |-> 967],   [key |-> "3/0", ohms |-> 766],
     [key |-> "4/0", ohms |-> 608],   [key |-> "250", ohms |-> 515],
     [key |-> "300", ohms |-> 429],   [key |-> "350", ohms |-> 367],
     [key |-> "400", ohms |-> 321],   [key |-> "500", ohms |-> 258] >>

\* the size keys calculateWireSize puts before ' AWG' and ' kcmil'
WireStems == {copperAmpacity75C[i].key : i \in DOMAIN copperAmpacity75C}

\* sizeKey = wireSize.replace(' AWG', '').replace(' kcmil', '')
SizeKey(wireSize) ==
  RemoveSuffix(RemoveSuffix(wireSize, " AWG", WireStems), " kcmil", WireStems)

\* sizeKey is a key of resistancePer1000ft
HasResistance(sizeKey) ==
  \E i \in DOMAIN resistancePer1000ft : resistancePer1000ft[i].key = sizeKey

\* resistancePer1000ft[sizeKey] || 0.1 for a sizeKey that names no inherited
\* member, in ten-thousandths of an ohm
Resistance(sizeKey) ==
  IF HasResistance(sizeKey)
  THEN resistancePer1000ft[CHOOSE i \in DOMAIN resistancePer1000ft :
                             resistancePer1000ft[i].key = sizeKey].ohms
  ELSE 1000

\* calculateVoltageDrop(current, distance, voltage, wireSize, phases) for a
\* current in tenths of an ampere and integer distance and voltage > 0:
\* the percentage in hundredths.  For a sizeKey that names an inherited
\* member the lookup gives that member and the arithmetic gives NaN.
calculateVoltageDrop(current10, distance, voltage, wireSize, phases) ==
  LET sizeKey     == SizeKey(wireSize)
      resistance  == FDec(Resistance(sizeKey), 10000)
      current     == FDec(current10, 10)
      voltageDrop ==
        IF phases = 3
        THEN FMul(FMul(FMul(Sqrt3, current), resistance),
                  FDivInt(FNum(distance), 1000))
        ELSE FMul(FMul(FMul(FNum(2), current), resistance),
                  FDivInt(FNum(distance), 1000))
      voltageDropPercent == FMul(FDivInt(voltageDrop, voltage), FNum(100))
  IN  IF sizeKey \in ObjectPrototypeKeys THEN NaN
      ELSE Number(FRound(FMul(voltageDropPercent, FNum(100))))

\* calculateShortCircuitCurrent(transformerKVA, voltage, impedance),
\* impedance in hundredths of a percent
calculateShortCircuitCurrent(transformerKVA, voltage, imp100) ==
  LET shortCircuitCurrent ==
        FDiv(FMul(FNum(transformerKVA), FNum(1000)),
             FMul(FMul(Sqrt3, FNum(voltage)), FDiv(FDec(imp100, 100), FNum(100))))
  IN  FRound(shortCircuitCurrent)

(***************************************************************************)
(* Plumbing engine                                                         *)
(***************************************************************************)

\* the initial value of the exported table fixtureUnits, in the order
\* written; units in tenths
WaterSupplyFixtureUnits ==
  << [key |-> "Water Closet (Tank)",        units |-> 30],
     [key |-> "Water Closet (Flush Valve)", units |-> 50],
     [key |-> "Urinal (Flush Valve)",       units |-> 50],
     [key |-> "Urinal (Tank)",              units |-> 30],
     [key |-> "Lavatory",                   units |-> 10],
     [key |-> "Sink (Kitchen)",             units |-> 20],
     [key |-> "Sink (Service)",             units |-> 30],
     [key |-> "Bathtub",                    units |-> 30],
     [key |-> "Shower",                     units |-> 20],
     [key |-> "Dishwasher (Domestic)",      units |-> 20],
     [key |-> "Washing Machine",            units |-> 30],
     [key |-> "Drinking Fountain",          units |-> 5],
     [key |-> "Hose Bibb",                  units |-> 30] >>

\* table[fixtureName] is a member of the table, with a truthy value
HasUnits(table, fixtureName) ==
  \E i \in DOMAIN table : table[i].key = fixtureName /\ table[i].units # 0

\* units of calculateTotalFixtureUnits: fixtureUnits[fixtureName] || 1, in
\* tenths
UnitsOf(table, fixtureName) ==
  IF HasUnits(table, fixtureName)
  THEN table[CHOOSE i \in DOMAIN table : table[i].key = fixtureName].units
  ELSE 10

RECURSIVE TotalUnitsFrom(_, _, _)
\* the sum of units * count over the entries of fixtures from i on
TotalUnitsFrom(table, fixtures, i) ==
  IF i > Len(fixtures) THEN 0
  ELSE UnitsOf(table, fixtures[i].name) * fixtures[i].count
         + TotalUnitsFrom(table, fixtures, i + 1)

\* calculateTotalFixtureUnits(fixtures) reading the table fixtureUnits;
\* fixtures is the sequence Object.entries gives, the counts are integers,
\* the total is in tenths.  A fixture name that names a member of
\* Object.prototype finds that member, and its product with the count is
\* NaN.
calculateTotalFixtureUnits(table, fixtures) ==
  IF \E i \in DOMAIN fixtures : fixtures[i].name \in ObjectPrototypeKeys THEN NaN
  ELSE Number(TotalUnitsFrom(table, fixtures, 1))

\* fixtureUnitsToGPM without its wsfu <= 50 piece
fixtureUnitsToGPMNoMidPiece(wsfu, math) ==
  IF wsfu <= 0 THEN Zero
  ELSE IF wsfu <= 10 THEN FMul(FSqrt(FNum(wsfu)), FDec(35, 10))
  ELSE IF wsfu <= 200 THEN FMul(Pow(math, FNum(wsfu), FDec(38, 100)), FNum(15))
  ELSE FMul(Pow(math, FNum(wsfu), FDec(35, 100)), FNum(20))

\* fixtureUnitsToGPM with the pieces of the small and of the very large
\* systems exchanged
fixtureUnitsToGPMSwappedPieces(wsfu, math) ==
  IF wsfu <= 0 THEN Zero
  ELSE IF wsfu <= 10 THEN FMul(Pow(math, FNum(wsfu), FDec(35, 100)), FNum(20))
  ELSE IF wsfu <= 50 THEN FMul(Pow(math, FNum(wsfu), FDec(45, 100)), FNum(8))
  ELSE IF wsfu <= 200 THEN FMul(Pow(math, FNum(wsfu), FDec(38, 100)), FNum(15))
  ELSE FMul(FSqrt(FNum(wsfu)), FDec(35, 10))

\* fixtureUnitsToGPM(wsfu) for an integer wsfu, in the build math, one of
\* WithPows({{}}, fixtureUnitsToGPMPows(wsfu)): the flow rate, a number
fixtureUnitsToGPM(wsfu, math) ==
  IF wsfu <= 0 THEN Zero
  ELSE IF wsfu <= 10 THEN FMul(FSqrt(FNum(wsfu)), FDec(35, 10))
  ELSE IF wsfu <= 50 THEN FMul(Pow(math, FNum(wsfu), FDec(45, 100)), FNum(8))
  ELSE IF wsfu <= 200 THEN FMul(Pow(math, FNum(wsfu), FDec(38, 100)), FNum(15))
  ELSE FMul(Pow(math, FNum(wsfu), FDec(35, 100)), FNum(20))

\* the arguments of the Math.pow call fixtureUnitsToGPM(wsfu) makes, if it
\* makes one
fixtureUnitsToGPMPows(wsfu) ==
  IF wsfu <= 10 THEN <<>>
  ELSE IF wsfu <= 50 THEN <<<<FNum(wsfu), FDec(45, 100)>>>>
  ELSE IF wsfu <= 200 THEN <<<<FNum(wsfu), FDec(38, 100)>>>>
  ELSE <<<<FNum(wsfu), FDec(35, 100)>>>>

\* standardSizes of calculatePipeSize, in hundredths of an inch, and as
\* numbers
PipeSizes == <<50, 75, 100, 125, 150, 200, 250, 300, 400, 500, 600, 800, 1000, 1200>>
PipeSizeNumbers == [k \in DOMAIN PipeSizes |-> FDec(PipeSizes[k], 100)]

\* diameter of calculatePipeSize, from the flow rate in GPM
PipeDiameter(flowRate) ==
  LET targetVelocity == FNum(5)
      flowCFS        == FDiv(flowRate, FMul(FDec(748, 100), FNum(60)))
      requiredArea   == FDiv(flowCFS, targetVelocity)
  IN  FMul(FSqrt(FDiv(FMul(FNum(4), requiredArea), Pi)), FNum(12))

\* the result Infinity
Infinity == [nan |-> FALSE, infinite |-> TRUE]

\* Math.round(pressureLoss * 100) / 100 for pressureLoss = headLoss * 0.433
\* and headLoss = num / den, num >= 0 and den >= 0: 0 / 0 (no flow through
\* no pipe) is NaN, and a flow through no pipe gives Infinity
RoundedLoss(num, den) ==
  IF den.s = 0 THEN (IF num.s = 0 THEN NaN ELSE Infinity)
  ELSE Number(FDiv(FRoundBig(FMul(FMul(FDiv(num, den), FDec(433, 1000)), FNum(100))),
                   FNum(100)))

\* what calculateFrictionLoss computes from the two arguments it reads,
\* numbers >= 0: PSI per 100 ft, with C = 140 the Hazen-Williams coefficient
FrictionLossPer100(flowRate, diameter, math) ==
  RoundedLoss(FMul(FDec(452, 100), Pow(math, flowRate, FDec(185, 100))),
              FMul(Pow(math, FNum(140), FDec(185, 100)),
                   Pow(math, diameter, FDec(487, 100))))

\* calculateFrictionLoss(flowRate, diameter, length) in the build math, one
\* of WithPows({{}}, calculateFrictionLossPows(flowRate, diameter)); length
\* is not read
calculateFrictionLoss(flowRate, diameter, length, math) ==
  FrictionLossPer100(flowRate, diameter, math)

\* the arguments of the Math.pow calls calculateFrictionLoss makes
calculateFrictionLossPows(flowRate, diameter) ==
  << <<flowRate, FDec(185, 100)>>, <<FNum(140), FDec(185, 100)>>,
     <<diameter, FDec(487, 100)>> >>

\* the pressure test against the whole available pressure
LossTooHighOfAll(frictionLoss, length, pressureAvailable) ==
  IF frictionLoss = Infinity THEN length > 0
  ELSE
  /\ ~frictionLoss.nan
  /\ FLess(FNum(pressureAvailable),
           FDiv(FMul(frictionLoss.val, FNum(length)), FNum(100)))

\* pressureLoss > pressureAvailable * 0.5, pressureLoss = frictionLoss *
\* length / 100; every comparison with NaN is false, and Infinity * length
\* is Infinity for length > 0 and NaN for length = 0
LossTooHigh(frictionLoss, length, pressureAvailable) ==
  IF frictionLoss = Infinity THEN length > 0
  ELSE
  /\ ~frictionLoss.nan
  /\ FLess(FMul(FNum(pressureAvailable), FDec(5, 10)),
           FDiv(FMul(frictionLoss.val, FNum(length)), FNum(100)))

\* the index in PipeSizes of the size calculatePipeSize first selects:
\* standardSizes.find(size => size >= diameter) || standardSizes[0]
PipeBaseIndex(diameter) ==
  LET i == FindIndex([k \in DOMAIN PipeSizes |-> ~FLess(PipeSizeNumbers[k], diameter)])
  IN  IF i # 0 THEN i ELSE 1

\* flowRate, diameter and frictionLoss of calculatePipeSize for a flow rate,
\* and the build they are computed in
PipeDemandAt(flowRate0, math) ==
  CHOOSE demand \in
    {[flowRate |-> flowRate, diameter |-> diameter,
      frictionLoss |-> FrictionLossPer100(flowRate, diameter, math),
      math |-> math] :
       flowRate \in {flowRate0}, diameter \in {PipeDiameter(flowRate0)}} : TRUE

\* flowRate, diameter and frictionLoss of calculatePipeSize; none of them
\* depends on length or pressureAvailable
PipeDemand(fixtureUnits, math) ==
  PipeDemandAt(fixtureUnitsToGPM(fixtureUnits, math), math)

\* the builds calculatePipeSize(fixtureUnits, ...) tells apart: by the flow
\* rate, and then by the powers of the friction loss
calculatePipeSizeMaths(fixtureUnits) ==
  UNION {WithPows({mf[1]}, calculateFrictionLossPows(mf[2], PipeDiameter(mf[2]))) :
           mf \in {<<m, fixtureUnitsToGPM(fixtureUnits, m)>> :
                     m \in WithPows({{}}, fixtureUnitsToGPMPows(fixtureUnits))}}

\* selectedSize of calculatePipeSize in hundredths of an inch, index being
\* the index of the size first selected
BumpedSize(index, frictionLoss, length, pressureAvailable) ==
  IF LossTooHigh(frictionLoss, length, pressureAvailable) /\ index < Len(PipeSizes)
  THEN PipeSizes[index + 1]
  ELSE PipeSizes[index]

\* the label calculatePipeSize returns for the demand it has computed:
\* selectedSize + '"'
PipeSizeFor(demand, length, pressureAvailable) ==
  CHOOSE label \in
    {NumberToString(BumpedSize(index, demand.frictionLoss, length, pressureAvailable))
       \o "\"" : index \in {PipeBaseIndex(demand.diameter)}} : TRUE

\* calculatePipeSize(fixtureUnits, length, pressureAvailable) for integers,
\* in the build math, one of calculatePipeSizeMaths(fixtureUnits)
calculatePipeSize(fixtureUnits, length, pressureAvailable, math) ==
  CHOOSE label \in
    {PipeSizeFor(demand, length, pressureAvailable) :
       demand \in {PipeDemand(fixtureUnits, math)}} : TRUE

\* the sizes (hundredths of an inch) calculatePipeSize's find examines for
\* a diameter
PipeScan(diameter) ==
  LET i == FindIndex([k \in DOMAIN PipeSizes |-> ~FLess(PipeSizeNumbers[k], diameter)])
  IN  IF i # 0 THEN SubSeq(PipeSizes, 1, i) ELSE PipeSizes

\* calculateWaterHeaterSize(fixtureCount, peakDemand), peakDemand in tenths
calculateWaterHeaterSize(fixtureCount, peak10) ==
  LET baseCapacity == FMul(FNum(fixtureCount), FNum(12))
      peakDemand   == FDec(peak10, 10)
  IN  [tankCapacity |-> FCeil(FDivInt(FMul(baseCapacity, peakDemand), 10)) * 10,
       recoveryRate |-> FCeil(FMul(FMul(baseCapacity, peakDemand), FDec(7, 10)))]

\* drainCapacities, sizes in hundredths of an inch
drainCapacities ==
  << [size |-> 150,  dfu |-> 3],
     [size |-> 200,  dfu |-> 6],
     [size |-> 250,  dfu |-> 12],
     [size |-> 300,  dfu |-> 20],
     [size |-> 400,  dfu |-> 160],
     [size |-> 500,  dfu |-> 360],
     [size |-> 600,  dfu |-> 620],
     [size |-> 800,  dfu |-> 1400],
     [size |-> 1000, dfu |-> 2500],
     [size |-> 1200, dfu |-> 3900] >>

\* adjustedDFU with the slope adjustment left out
AdjustedDFUNoSlope(drainageFixtureUnits, slope1000) == FNum(drainageFixtureUnits)

\* adjustedDFU of calculateDrainPipeSize, a number; slope1000 > 0 is the
\* slope in thousandths of an inch per foot (250 is the 1/4" baseline)
AdjustedDFU(drainageFixtureUnits, slope1000) ==
  LET slopeFactor == FSqrt(FDiv(FDec(slope1000, 1000), FDec(25, 100)))
  IN  FDiv(FNum(drainageFixtureUnits), slopeFactor)

\* the index of drainCapacities.find(cap => cap.dfu >= adjustedDFU), 0 when
\* it finds none
DrainIndex(adjustedDFU) ==
  FindIndex([k \in DOMAIN drainCapacities |->
               ~FLess(FNum(drainCapacities[k].dfu), adjustedDFU)])

\* (selectedSize?.size || 12) + '"' for the index found
DrainLabel(i) ==
  NumberToString(IF i # 0 THEN drainCapacities[i].size ELSE 1200) \o "\""

\* calculateDrainPipeSize(drainageFixtureUnits, slope)
calculateDrainPipeSize(drainageFixtureUnits, slope1000) ==
  CHOOSE label \in
    {DrainLabel(DrainIndex(adjustedDFU)) :
       adjustedDFU \in {AdjustedDFU(drainageFixtureUnits, slope1000)}} : TRUE

\* the DFU capacities the find examines when it stops at index i
DrainScanTo(i) ==
  LET th == [k \in DOMAIN drainCapacities |-> drainCapacities[k].dfu]
  IN  IF i # 0 THEN SubSeq(th, 1, i) ELSE th

\* the DFU capacities calculateDrainPipeSize's find examines
DrainScan(drainageFixtureUnits, slope1000) ==
  CHOOSE scan \in
    {DrainScanTo(DrainIndex(adjustedDFU)) :
       adjustedDFU \in {AdjustedDFU(drainageFixtureUnits, slope1000)}} : TRUE

(***************************************************************************)
(* Fire-protection engine                                                  *)
(***************************************************************************)

\* constructionFactors[constructionType] || 1.0, in tenths, for any string
\* constructionType: the lookup of a name of ObjectPrototypeKeys finds the
\* member every object literal inherits (a function, an object for
\* __proto__, written [inherited |-> name]), which is truthy, so || 1.0 is
\* not taken; any other string the table does not have gives undefined and
\* 1.0
constructionFactor(constructionType) ==
  CASE constructionType = "Type I" -> 6
    [] constructionType = "Type II" -> 8
    [] constructionType = "Type III" -> 10
    [] constructionType = "Type IV" -> 8
    [] constructionType = "Type V" -> 12
    [] constructionType \in ObjectPrototypeKeys ->
         [inherited |-> constructionType]
    [] OTHER -> 10

\* C * Math.sqrt(buildingArea) * 18 for an integer buildingArea and any
\* string constructionType, C in tenths: NaN when C is an inherited member
\* (not a number) and when buildingArea < 0 (Math.sqrt gives NaN)
BaseFireFlow(buildingArea, constructionType) ==
  IF constructionType \in ObjectPrototypeKeys \/ buildingArea < 0 THEN NaN
  ELSE FMul(FMul(FDec(constructionFactor(constructionType), 10),
                 FSqrt(FNum(buildingArea))),
            FNum(18))

\* Math.max(500, Math.min(12000, fireFlow)): NaN for NaN
ClampFireFlow(fireFlow0) ==
  CHOOSE r \in
    {IF fireFlow = NaN THEN NaN
     ELSE IF FLess(FNum(12000), fireFlow) THEN FNum(12000)
     ELSE IF FLess(fireFlow, FNum(500)) THEN FNum(500)
     ELSE fireFlow : fireFlow \in {fireFlow0}} : TRUE

\* calculateFireHydrantFlow rounding to the nearest GPM, not the nearest 250
calculateFireHydrantFlowUnrounded(buildingArea, constructionType) ==
  CHOOSE r \in
    {IF fireFlow = NaN THEN NaN ELSE Number(FRound(fireFlow)) :
       fireFlow \in {ClampFireFlow(BaseFireFlow(buildingArea, constructionType))}} : TRUE

\* calculateFireHydrantFlow(buildingArea, constructionType) for an integer
\* buildingArea and any string constructionType.  The product, Math.min,
\* Math.max and Math.round of NaN are NaN.
calculateFireHydrantFlow(buildingArea, constructionType) ==
  CHOOSE r \in
    {IF fireFlow = NaN THEN NaN
     ELSE Number(FRound(FDiv(fireFlow, FNum(250))) * 250) :
       fireFlow \in {ClampFireFlow(BaseFireFlow(buildingArea, constructionType))}} : TRUE

\* the keys of densities, coverages and basePressure
HazardClassKeys == {"Light", "Ordinary I", "Ordinary II", "Extra"}

\* densities[hazardClass] || 0.15, in hundredths of a GPM per square foot
density(hazardClass) ==
  CASE hazardClass = "Light" -> 10
    [] hazardClass = "Ordinary I" -> 15
    [] hazardClass = "Ordinary II" -> 20
    [] hazardClass = "Extra" -> 30
    [] OTHER -> 15

\* coverages with 1000 square feet per head for Extra hazard
coverageWide(hazardClass) ==
  CASE hazardClass = "Light" -> 225
    [] hazardClass = "Ordinary I" -> 130
    [] hazardClass = "Ordinary II" -> 130
    [] hazardClass = "Extra" -> 1000
    [] OTHER -> 130

\* coverages[hazardClass] || 130
coverage(hazardClass) ==
  CASE hazardClass = "Light" -> 225
    [] hazardClass = "Ordinary I" -> 130
    [] hazardClass = "Ordinary II" -> 130
    [] hazardClass = "Extra" -> 100
    [] OTHER -> 130

\* basePressure[hazardClass] for a key of the table
basePressure(hazardClass) ==
  CASE hazardClass = "Light" -> 7
    [] hazardClass = "Ordinary I" -> 10
    [] hazardClass = "Ordinary II" -> 15
    [] hazardClass = "Extra" -> 20

\* Math.round(area / coverage): the nearest count, not the next one
SprinklerHeadCountRounded(area, hazardClass) ==
  FRound(FDivInt(FNum(area), coverage(hazardClass)))

\* headCount = Math.ceil(area / coverage)
SprinklerHeadCount(area, hazardClass) ==
  FCeil(FDivInt(FNum(area), coverage(hazardClass)))

\* flowRate = Math.round(Math.max(1500, coverage * 5) * density)
SprinklerFlowRate(hazardClass) ==
  LET c5         == coverage(hazardClass) * 5
      designArea == IF c5 > 1500 THEN c5 ELSE 1500
  IN  FRound(FMul(FNum(designArea), FDec(density(hazardClass), 100)))

\* totalPressure: basePressure[hazardClass] is undefined for a class that
\* is not a key of the table, and the sum is then NaN
SprinklerPressure(hazardClass, ceilingHeight) ==
  LET base              == FNum(basePressure(hazardClass))
      elevationPressure == FMul(FNum(ceilingHeight), FDec(433, 1000))
  IN  IF hazardClass \notin HazardClassKeys THEN NaN
      ELSE Number(FRound(FAdd(FAdd(base, elevationPressure),
                              FMul(base, FDec(3, 10)))))

\* the main pipe size for a flow rate
SprinklerPipeSize(flowRate) ==
  IF flowRate < 100 THEN "2\""
  ELSE IF flowRate < 200 THEN "2.5\""
  ELSE IF flowRate < 400 THEN "3\""
  ELSE IF flowRate < 750 THEN "4\""
  ELSE IF flowRate < 1200 THEN "5\""
  ELSE IF flowRate < 2000 THEN "6\""
  ELSE "8\""

\* calculateSprinklerSystem(area, hazardClass, ceilingHeight) for integer
\* area and ceilingHeight and a hazardClass that is a key of the tables or
\* names no member of an object; density in hundredths
calculateSprinklerSystem(area, hazardClass, ceilingHeight) ==
  [coverage  |-> coverage(hazardClass),
   density   |-> density(hazardClass),
   headCount |-> SprinklerHeadCount(area, hazardClass),
   flowRate  |-> SprinklerFlowRate(hazardClass),
   pressure  |-> SprinklerPressure(hazardClass, ceilingHeight),
   pipeSize  |-> SprinklerPipeSize(SprinklerFlowRate(hazardClass))]

\* the standpipe flow rate without the cap at 1250 GPM
StandpipeFlowRateUncapped(floors) ==
  IF floors <= 3 THEN 500 ELSE 500 + ((floors - 3) * 250)

\* flowRate of calculateStandpipeSystem
StandpipeFlowRate(floors) ==
  IF floors <= 3 THEN 500
  ELSE IF 500 + ((floors - 3) * 250) < 1250 THEN 500 + ((floors - 3) * 250)
  ELSE 1250

\* calculateStandpipeSystem(floors, buildingHeight), integers
calculateStandpipeSystem(floors, buildingHeight) ==
  LET staticPressure    == FNum(100)
      elevationPressure == FMul(FNum(buildingHeight), FDec(433, 1000))
      frictionLoss      == FMul(FNum(buildingHeight), FDec(1, 10))
  IN  [systemType      |-> "Class I (2.5\" hose)",
       flowRate        |-> StandpipeFlowRate(floors),
       pressure        |-> FRound(FAdd(FAdd(staticPressure, elevationPressure),
                                       frictionLoss)),
       pipeSize        |-> IF floors <= 5 THEN "4\"" ELSE "6\"",
       hoseConnections |-> floors]

\* Math.round(totalFlowRequired * 1.5 / 100) * 100: the nearest 100 GPM
PumpCapacityNearest(totalFlowRequired) ==
  FRound(FDivInt(FMul(FNum(totalFlowRequired), FDec(15, 10)), 100)) * 100

\* pumpCapacity = Math.ceil(totalFlowRequired * 1.5 / 100) * 100
PumpCapacity(totalFlowRequired) ==
  FCeil(FDivInt(FMul(FNum(totalFlowRequired), FDec(15, 10)), 100)) * 100

\* Math.round(Math.max(0, pressureDeficit) / 5) * 5: the nearest 5 PSI
PumpPressureNearest(staticPressure, requiredPressure, elevation) ==
  LET elevationPressure == FMul(FNum(elevation), FDec(433, 1000))
      frictionLoss      == FMul(FNum(elevation), FDec(15, 100))
      pressureDeficit   ==
        FAdd(FAdd(FSub(FNum(requiredPressure), FNum(staticPressure)),
                  elevationPressure),
             frictionLoss)
  IN  FRound(FDivInt(FMax0(pressureDeficit), 5)) * 5

\* pumpPressure = Math.ceil(Math.max(0, pressureDeficit) / 5) * 5
PumpPressure(staticPressure, requiredPressure, elevation) ==
  LET elevationPressure == FMul(FNum(elevation), FDec(433, 1000))
      frictionLoss      == FMul(FNum(elevation), FDec(15, 100))
      pressureDeficit   ==
        FAdd(FAdd(FSub(FNum(requiredPressure), FNum(staticPressure)),
                  elevationPressure),
             frictionLoss)
  IN  FCeil(FDivInt(FMax0(pressureDeficit), 5)) * 5

\* horsepower = Math.ceil(pumpCapacity * pumpPressure / (1714 * 0.70) / 5) * 5.
\* 1714 * 0.70 is the double nearest to 1199.8, and the product is a
\* multiple of 500; below 85700 GPM and 4285 PSI the product is no multiple
\* of 5999 = 7 * 857, so the quotient is at least 1/5999 away from every
\* integer and its ceiling is that of the exact quotient product / 5999.
PumpHorsepower(pumpCapacity, pumpPressure) ==
  ((pumpCapacity * pumpPressure + 5998) \div 5999) * 5

\* a pump type chosen by the capacity alone
PumpTypeByCapacity(pumpCapacity, pumpPressure) ==
  IF pumpCapacity <= 1500 THEN "Horizontal Split Case"
  ELSE "Horizontal Split Case (Large)"

\* pumpType for a capacity and a pressure
PumpType(pumpCapacity, pumpPressure) ==
  IF pumpCapacity <= 1500 /\ pumpPressure <= 100 THEN "Horizontal Split Case"
  ELSE IF pumpCapacity <= 1000 /\ pumpPressure > 100 THEN "Vertical Turbine"
  ELSE "Horizontal Split Case (Large)"

\* calculateFirePump(totalFlowRequired, staticPressure, requiredPressure,
\* elevation), integers, totalFlowRequired >= 0
calculateFirePump(totalFlowRequired, staticPressure, requiredPressure, elevation) ==
  LET pumpCapacity == PumpCapacity(totalFlowRequired)
      pumpPressure == PumpPressure(staticPressure, requiredPressure, elevation)
  IN  [pumpCapacity |-> pumpCapacity,
       pumpPressure |-> pumpPressure,
       horsepower   |-> PumpHorsepower(pumpCapacity, pumpPressure),
       pumpType     |-> PumpType(pumpCapacity, pumpPressure)]

(***************************************************************************)
(* HVAC engine                                                             *)
(***************************************************************************)

\* standardSizes of calculateDuctSize, in inches
DuctSizes == <<6, 8, 10, 12, 14, 16, 18, 20, 24, 30, 36, 42, 48>>

\* diameter of calculateDuctSize, in inches: a number
DuctDiameter(airflow, velocity) ==
  LET area == FDiv(FNum(airflow), FNum(velocity))
  IN  FMul(FSqrt(FDiv(FMul(FNum(4), area), Pi)), FNum(12))

\* the reducer's test with its comparison turned round
FartherFromDiameter(curr, prevSize, diameter) ==
  FLess(FAbs(FSub(FNum(prevSize), diameter)), FAbs(FSub(FNum(curr), diameter)))

\* the reducer's test: Math.abs(curr - diameter) < Math.abs(prev - diameter)
CloserToDiameter(curr, prevSize, diameter) ==
  FLess(FAbs(FSub(FNum(curr), diameter)), FAbs(FSub(FNum(prevSize), diameter)))

RECURSIVE ReduceClosest(_, _, _)
\* standardSizes.reduce from the entry at position i on, prevSize being the
\* accumulator
ReduceClosest(prevSize, i, diameter) ==
  IF i > Len(DuctSizes) THEN prevSize
  ELSE IF CloserToDiameter(DuctSizes[i], prevSize, diameter)
       THEN ReduceClosest(DuctSizes[i], i + 1, diameter)
       ELSE ReduceClosest(prevSize, i + 1, diameter)

\* calculateDuctSize snapping up to the next larger size
calculateDuctSizeNextLarger(airflow, velocity) ==
  CHOOSE size \in
    {IF \A k \in DOMAIN DuctSizes : FLess(FNum(DuctSizes[k]), diameter)
     THEN DuctSizes[Len(DuctSizes)]
     ELSE DuctSizes[CHOOSE k \in DOMAIN DuctSizes :
                      /\ ~FLess(FNum(DuctSizes[k]), diameter)
                      /\ \A j \in 1 .. k - 1 : FLess(FNum(DuctSizes[j]), diameter)] :
       diameter \in {DuctDiameter(airflow, velocity)}} : TRUE

\* calculateDuctSize(airflow, velocity) for integers airflow >= 0 and
\* velocity > 0
calculateDuctSize(airflow, velocity) ==
  CHOOSE closestSize \in
    {ReduceClosest(DuctSizes[1], 2, diameter) :
       diameter \in {DuctDiameter(airflow, velocity)}} : TRUE

\* calculateHeatingLoad(area, occupancy, outdoorTemp, indoorTemp), integers
calculateHeatingLoad(area, occupancy, outdoorTemp, indoorTemp) ==
  LET envelopeLoss     == FMul(FNum(area), FNum(30))
      tempDiff         == FSub(FNum(indoorTemp), FNum(outdoorTemp))
      loadTempFactor   == FDivInt(tempDiff, 70)
      infiltrationLoss == FMul(FMul(FNum(area), FDec(18, 1000)), tempDiff)
      occupancyLoad    == FMul(FNum(occupancy), FNum(-250))
      totalLoad        == FAdd(FAdd(FMul(envelopeLoss, loadTempFactor), infiltrationLoss),
                               occupancyLoad)
  IN  Max0(FRound(totalLoad))

\* calculateCoolingLoad(area, occupancy, outdoorTemp, indoorTemp), integers
calculateCoolingLoad(area, occupancy, outdoorTemp, indoorTemp) ==
  LET solarGain        == FMul(FNum(area), FNum(40))
      conductionGain   == FMul(FNum(area), FNum(15))
      tempDiff         == FSub(FNum(outdoorTemp), FNum(indoorTemp))
      loadTempFactor   == FDivInt(tempDiff, 20)
      infiltrationGain == FMul(FMul(FNum(area), FDec(18, 1000)), tempDiff)
      lightsLoad       == FMul(FNum(area), FDec(15, 10))
      equipmentLoad    == FMul(FNum(area), FNum(1))
      occupancyLoad    == FMul(FNum(occupancy), FNum(250))
      occupancyLatent  == FMul(FNum(occupancy), FNum(200))
      internalLoad     == FMul(FAdd(lightsLoad, equipmentLoad), FDec(3412, 1000))
      totalLoad        ==
        FAdd(FAdd(FAdd(FAdd(FMul(FAdd(solarGain, conductionGain), loadTempFactor),
                            infiltrationGain),
                       internalLoad),
                  occupancyLoad),
             occupancyLatent)
  IN  FRound(totalLoad)

\* ventilationRates, in the order written: perPerson in tenths and perArea
\* in hundredths of a CFM
ventilationRates ==
  << [key |-> "office",     perPerson |-> 50,  perArea |-> 6],
     [key |-> "classroom",  perPerson |-> 100, perArea |-> 12],
     [key |-> "retail",     perPerson |-> 75,  perArea |-> 12],
     [key |-> "restaurant", perPerson |-> 75,  perArea |-> 18],
     [key |-> "warehouse",  perPerson |-> 0,   perArea |-> 6],
     [key |-> "gym",        perPerson |-> 200, perArea |-> 6] >>

\* String.prototype.toLowerCase, on the strings the caller passes
ToLowerCase(str) ==
  CASE str = "GYM" -> "gym"
    [] OTHER -> str

\* the names every object literal inherits from Object.prototype that are
\* their own lower-case form
InheritedKeys == {"constructor", "__proto__"}

\* ventilationRates[key] is a member of the table
HasRate(key) == \E i \in DOMAIN ventilationRates : ventilationRates[i].key = key

\* ventilationRates[key] for a key of the table
RateOf(key) ==
  ventilationRates[CHOOSE i \in DOMAIN ventilationRates : ventilationRates[i].key = key]

\* calculateVentilationRate(area, occupancy, spaceType): the lookup
\* ventilationRates[...] || ventilationRates.office finds an inherited
\* member of the object (truthy, without perPerson and perArea) for the
\* keys of InheritedKeys, and the arithmetic on undefined gives NaN
calculateVentilationRate(area, occupancy, spaceType) ==
  LET key   == ToLowerCase(spaceType)
      rates == IF HasRate(key) THEN RateOf(key) ELSE RateOf("office")
      ventilation == FAdd(FMul(FNum(occupancy), FDec(rates.perPerson, 10)),
                          FMul(FNum(area), FDec(rates.perArea, 100)))
  IN  IF key \in InheritedKeys THEN NaN
      ELSE Number(FRound(ventilation))

\* calculateEquipmentCapacity rounding to the nearest half ton
calculateEquipmentCapacityNearest(coolingLoad) ==
  LET tons == FDivInt(FNum(coolingLoad), 12000)
  IN  5 * FRound(FMul(tons, FNum(2)))

\* calculateEquipmentCapacity(coolingLoad) for an integer coolingLoad: the
\* result in tenths of a ton
calculateEquipmentCapacity(coolingLoad) ==
  LET tons == FDivInt(FNum(coolingLoad), 12000)
  IN  5 * FCeil(FMul(tons, FNum(2)))

(***************************************************************************)
(* The caller: inputs                                                      *)
(***************************************************************************)

\* loads in watts: multiples of LoadStep
LoadStep == 10000
MaxLoadK == 5
Loads == {k * LoadStep : k \in 0 .. MaxLoadK} \cup {50000}
Voltages == {120, 208, 480}
Phases == {1, 3}
PowerFactors == {85, 100}

\* currents in tenths of an ampere: a fine grid below, a coarse one above
FineStep == 40
MaxFineK == 12
CoarseStep == 1600
MaxCoarseK == 7
Currents ==
  {k * FineStep : k \in 0 .. MaxFineK} \cup {k * CoarseStep : k \in 0 .. MaxCoarseK}
Materials == {"copper", "aluminum"}
TempRatings == {60, 75, 90}

\* voltage drop: currents in tenths of an ampere, one-way distances in
\* feet, and wire sizes: labels calculateWireSize returns, a label it never
\* returns, and a string that names a member of every object
DropCurrentStep == 140
MaxDropCurrentK == 5
DropCurrents == {k * DropCurrentStep : k \in 0 .. MaxDropCurrentK} \cup {708}
Distances == {150, 1000}
DropVoltages == {120, 480}
WireSizes == {"14 AWG", "1 AWG", "1000 kcmil", "constructor", "__defineGetter__"}

\* fixture units: none, small systems, the form's default, a system whose
\* diameter lies between the last two standard sizes, and multiples of one
\* whose diameter lies beyond the last
MinSmallWsfu == 7
MaxSmallWsfu == 11
LargeWsfuStep == 400000
MaxLargeWsfuK == 1
FixtureUnitCounts ==
  (MinSmallWsfu .. MaxSmallWsfu) \cup {0, 40, 200000}
     \cup {k * LargeWsfuStep : k \in 1 .. MaxLargeWsfuK}
\* fixture counts as Object.entries lists them: none, a fixture of the
\* table with one the table does not have, and a name every object has
FixtureLists ==
  { <<>>,
    <<[name |-> "Lavatory", count |-> 2],
      [name |-> "Bidet", count |-> 2]>>,
    <<[name |-> "constructor", count |-> 1]>> }
\* arguments of fixtureUnitsToGPM: the fixture unit counts, the branch
\* bounds with their successors, a count whose power two builds round
\* differently, and negative numbers, which it does not reject
MaxNegativeWsfu == 2
WsfuInputs ==
  FixtureUnitCounts \cup {32, 50, 51, 200, 201, 400}
     \cup {0 - k : k \in 1 .. MaxNegativeWsfu}
\* pipe lengths in feet and available pressures in PSI
LengthStep == 2000
MaxLengthK == 1
Lengths == {k * LengthStep : k \in 0 .. MaxLengthK}
MaxLowPressure == 1
Pressures == (0 .. MaxLowPressure) \cup {50}

\* drainage fixture units, and slopes in thousandths of an inch per foot
DfuStep == 3
MaxDfuK == 8
DfuDecadeStep == 2800
MaxDfuDecadeK == 3
DrainageUnits ==
  {k * DfuStep : k \in 0 .. MaxDfuK} \cup {k * DfuDecadeStep : k \in 0 .. MaxDfuDecadeK}
     \cup {20, 60, 160}
Slopes == {125, 250, 500, 1000, 2250}

\* building areas in square feet; the engine takes any number
AreaStep == 5000
MaxAreaK == 6
MaxNegativeAreaK == 2
Areas ==
  {k * AreaStep : k \in 0 .. MaxAreaK} \cup {10000, 250000, 400000}
    \cup {0 - k * AreaStep : k \in 1 .. MaxNegativeAreaK} \cup {-1}
\* construction types: the five of constructionFactors, one the table does
\* not have, and a name every object literal inherits (the engine is called
\* with any string; the form's select offers the five)
ConstructionTypes ==
  {"Type I", "Type II", "Type III", "Type IV", "Type V", "Type VI", "constructor"}

\* protected areas in square feet, hazard classes (the four of the form's
\* list and one the tables do not have), ceiling heights in feet
SprinklerAreaStep == 65
MaxSprinklerAreaK == 4
SprinklerAreas ==
  {k * SprinklerAreaStep : k \in 0 .. MaxSprinklerAreaK}
    \cup {1, 129, 131, 224, 225, 226, 20000}
HazardClasses == HazardClassKeys \cup {"Moderate"}
CeilingHeights == {0, 15}

\* floors, counted from MaxBelowFloors below zero, and building heights in
\* feet
MaxFloors == 12
MaxBelowFloors == 2
Floors == (0 - MaxBelowFloors) .. MaxFloors
BuildingHeights == {70, 150}

\* system demands in GPM, pressures in PSI, elevations in feet
PumpFlowStep == 250
MaxPumpFlowK == 6
PumpFlows == {k * PumpFlowStep : k \in 0 .. MaxPumpFlowK} \cup {1, 66, 67, 725}
StaticPressures == {0, 60}
RequiredPressures == {0, 62, 120}
Elevations == {0, 30, 1000}

\* airflows in CFM and design velocities in FPM
AirflowStep == 500
MaxAirflowK == 30
Airflows == {k * AirflowStep : k \in 0 .. MaxAirflowK} \cup {1200}
Velocities == {500, 1000, 1500, 2000}

\* conditioned areas in square feet, occupants, temperatures in degrees F
HvacAreaStep == 250
MaxHvacAreaK == 6
HvacAreas == {k * HvacAreaStep : k \in 0 .. MaxHvacAreaK} \cup {350, 1000}
Occupancies == {0, 10}
OutdoorTemps == {0, 95}
IndoorTemps == {70, 75, 85}

\* space types: the six of the form's list, one of them in capitals, one
\* the table does not have, and one that names a member of every object
SpaceTypes ==
  {"office", "classroom", "retail", "restaurant", "warehouse", "gym",
   "GYM", "lobby", "constructor"}

\* cooling loads in BTU/hr: the loads of the form's default conditions, and
\* loads on both sides of zero
CoolingLoadStep == 6000
MaxCoolingLoadK == 10
CoolingLoads ==
  {(k - (MaxCoolingLoadK \div 2)) * CoolingLoadStep : k \in 0 .. MaxCoolingLoadK}
    \cup {48000, 49500, -1}
    \cup {calculateCoolingLoad(area, 10, 95, 75) : area \in HvacAreas}

(***************************************************************************)
(* The caller: one call after another                                      *)
(*                                                                         *)
(* The engine functions may be called in any order with any arguments.     *)
(* cur is the last call made (the function, its fixed arguments, its       *)
(* driving argument x, the value returned, and the thresholds its          *)
(* selection examined).  prev remembers the call before it when that was a *)
(* call of the same function with the same fixed arguments, the two calls  *)
(* the properties compare, and is no call otherwise.  A call also records  *)
(* math, the values Math.pow returned to it that what it returned depends  *)
(* on; the two calls remembered are calls in one build, so Math.pow        *)
(* returned the same value to both for the same arguments.                 *)
(***************************************************************************)

NoCall ==
  [fn |-> "none", fixed |-> <<>>, x |-> 0, out |-> 0, scan |-> <<>>, math |-> {}]

\* the record of a call that does not call Math.pow
Made(fn, fixed, x, out, scan) ==
  [fn |-> fn, fixed |-> fixed, x |-> x, out |-> out, scan |-> scan, math |-> {}]

\* a result not yet computed (null), and no document written yet
Null == [null |-> TRUE]
NoDoc == [type |-> "none"]

\* the user the component is rendered for
userId == "user-1"

\* the form state the component starts with; factors in hundredths
HvacDefaults ==
  [area |-> 1000, occupancy |-> 10, outdoorTemp |-> 95, indoorTemp |-> 75,
   spaceType |-> "office", airflow |-> 1200]
ElecDefaults ==
  [connectedLoad |-> 50000, demandFactor |-> 80, voltage |-> 480, phases |-> 3,
   powerFactor |-> 85, distance |-> 150, material |-> "copper", tempRating |-> 75,
   transformerKVA |-> 500, impedance |-> 575]
PlumbDefaults ==
  [fixtureUnits |-> 40, length |-> 120, pressureAvailable |-> 50,
   fixtureCount |-> 25, drainageFixtureUnits |-> 60]
FireDefaults ==
  [area |-> 20000, hazardClass |-> "Ordinary I", ceilingHeight |-> 15, floors |-> 5,
   buildingHeight |-> 70, staticPressure |-> 60, requiredPressure |-> 120,
   elevation |-> 30, constructionType |-> "Type III"]

Init ==
  /\ cur = NoCall /\ prev = NoCall
  /\ fixtureUnitsTable = WaterSupplyFixtureUnits
  /\ totalCall = NoCall
  /\ projects = <<>> /\ selectedProjectId = "" /\ loadingProjects = TRUE
  /\ open = [hvac |-> TRUE, electrical |-> FALSE, plumbing |-> FALSE, fire |-> FALSE]
  /\ hvacInputs = HvacDefaults /\ hvacResult = Null /\ savingHvac = FALSE
  /\ elecInputs = ElecDefaults /\ elecResult = Null /\ savingElec = FALSE
  /\ plumbInputs = PlumbDefaults /\ plumbResult = Null /\ savingPlumb = FALSE
  /\ fireInputs = FireDefaults /\ fireResult = Null /\ savingFire = FALSE
  /\ added = NoDoc

\* what prev remembers when fn is called with these fixed arguments
Before(fn, fixed) == IF cur.fn = fn /\ cur.fixed = fixed THEN cur ELSE NoCall

\* what prev remembers when calculateSprinklerSystem is called for this
\* hazard class: the area and the ceiling height both vary
BeforeSprinkler(hazardClass) ==
  IF cur.fn = "calculateSprinklerSystem" /\ cur.fixed[1] = hazardClass THEN cur
  ELSE NoCall

\* the calls of a set that may have run in the build of the call before
InBuildOf(before, calls) == {call \in calls : SameBuild(call.math, before.math)}

\* The calls the model makes and what each returns.  The engine functions
\* are pure, so each is evaluated once per argument list and, where it
\* calls Math.pow, per build, and the flow rate, the diameter and the
\* friction loss of calculatePipeSize once per fixtureUnits and build.
CurrentCalls ==
  [load \in Loads, voltage \in Voltages, phases \in Phases, pf \in PowerFactors |->
    Made("calculateCurrent", <<voltage, phases, pf>>, load,
         calculateCurrent(load, voltage, phases, pf), <<>>)]

BreakerSizeCalls ==
  [current \in Currents, isContinuous \in BOOLEAN |->
    Made("calculateBreakerSize", <<isContinuous>>, current,
         calculateBreakerSize(current, isContinuous),
         BreakerScan(current, isContinuous))]

WireSizeCalls ==
  [current \in Currents, material \in Materials, tempRating \in TempRatings |->
    Made("calculateWireSize", <<material, tempRating>>, current,
         calculateWireSize(current, material, tempRating),
         WireScan(current, material, tempRating))]

FixtureUnitsToGPMCalls ==
  [wsfu \in WsfuInputs |->
    Merged({[Made("fixtureUnitsToGPM", <<>>, wsfu, fixtureUnitsToGPM(wsfu, math), <<>>)
               EXCEPT !.math = math] :
              math \in WithPows({{}}, fixtureUnitsToGPMPows(wsfu))})]

PipeDemands ==
  [fixtureUnits \in FixtureUnitCounts |->
    Merged({PipeDemand(fixtureUnits, math) :
              math \in calculatePipeSizeMaths(fixtureUnits)})]

PipeSizeCalls ==
  [fixtureUnits \in FixtureUnitCounts, length \in Lengths, pressure \in Pressures |->
    {[Made("calculatePipeSize", <<length, pressure>>, fixtureUnits,
           PipeSizeFor(demand, length, pressure), PipeScan(demand.diameter))
        EXCEPT !.math = demand.math] :
       demand \in PipeDemands[fixtureUnits]}]

DrainPipeSizeCalls ==
  [dfu \in DrainageUnits, slope \in Slopes |->
    Made("calculateDrainPipeSize", <<slope>>, dfu,
         calculateDrainPipeSize(dfu, slope), DrainScan(dfu, slope))]

FireHydrantFlowCalls ==
  [area \in Areas, constructionType \in ConstructionTypes |->
    Made("calculateFireHydrantFlow", <<constructionType>>, area,
         calculateFireHydrantFlow(area, constructionType), <<>>)]

SprinklerSystemCalls ==
  [area \in SprinklerAreas, hazardClass \in HazardClasses,
   ceilingHeight \in CeilingHeights |->
    Made("calculateSprinklerSystem", <<hazardClass, ceilingHeight>>, area,
         calculateSprinklerSystem(area, hazardClass, ceilingHeight), <<>>)]

StandpipeSystemCalls ==
  [floors \in Floors, buildingHeight \in BuildingHeights |->
    Made("calculateStandpipeSystem", <<buildingHeight>>, floors,
         calculateStandpipeSystem(floors, buildingHeight), <<>>)]

FirePumpCalls ==
  [totalFlowRequired \in PumpFlows, staticPressure \in StaticPressures,
   requiredPressure \in RequiredPressures, elevation \in Elevations |->
    Made("calculateFirePump", <<staticPressure, requiredPressure, elevation>>,
         totalFlowRequired,
         calculateFirePump(totalFlowRequired, staticPressure, requiredPressure,
                           elevation),
         <<>>)]

DuctSizeCalls ==
  [airflow \in Airflows, velocity \in Velocities |->
    Made("calculateDuctSize", <<velocity>>, airflow,
         calculateDuctSize(airflow, velocity), <<>>)]

HeatingLoadCalls ==
  [area \in HvacAreas, occupancy \in Occupancies,
   outdoorTemp \in OutdoorTemps, indoorTemp \in IndoorTemps |->
    Made("calculateHeatingLoad", <<occupancy, outdoorTemp, indoorTemp>>, area,
         calculateHeatingLoad(area, occupancy, outdoorTemp, indoorTemp), <<>>)]

VentilationRateCalls ==
  [area \in HvacAreas, occupancy \in Occupancies, spaceType \in SpaceTypes |->
    Made("calculateVentilationRate", <<occupancy, spaceType>>, area,
         calculateVentilationRate(area, occupancy, spaceType), <<>>)]

EquipmentCapacityCalls ==
  [coolingLoad \in CoolingLoads |->
    Made("calculateEquipmentCapacity", <<>>, coolingLoad,
         calculateEquipmentCapacity(coolingLoad), <<>>)]

VoltageDropCalls ==
  [current \in DropCurrents, distance \in Distances, voltage \in DropVoltages,
   wireSize \in WireSizes, phases \in Phases |->
    Made("calculateVoltageDrop", <<distance, voltage, wireSize, phases>>, current,
         calculateVoltageDrop(current, distance, voltage, wireSize, phases), <<>>)]

CallCurrent ==
  \E load \in Loads, voltage \in Voltages, phases \in Phases, pf \in PowerFactors :
    /\ cur' = CurrentCalls[load, voltage, phases, pf]
    /\ prev' = Before("calculateCurrent", <<voltage, phases, pf>>)
    /\ UNCHANGED <<fixtureUnitsTable, totalCall, component>>

CallBreakerSize ==
  \E current \in Currents, isContinuous \in BOOLEAN :
    /\ cur' = BreakerSizeCalls[current, isContinuous]
    /\ prev' = Before("calculateBreakerSize", <<isContinuous>>)
    /\ UNCHANGED <<fixtureUnitsTable, totalCall, component>>

CallWireSize ==
  \E current \in Currents, material \in Materials, tempRating \in TempRatings :
    /\ cur' = WireSizeCalls[current, material, tempRating]
    /\ prev' = Before("calculateWireSize", <<material, tempRating>>)
    /\ UNCHANGED <<fixtureUnitsTable, totalCall, component>>

CallFixtureUnitsToGPM ==
  \E wsfu \in WsfuInputs :
    /\ prev' = Before("fixtureUnitsToGPM", <<>>)
    /\ \E call \in InBuildOf(prev', FixtureUnitsToGPMCalls[wsfu]) : cur' = call
    /\ UNCHANGED <<fixtureUnitsTable, totalCall, component>>

CallPipeSize ==
  \E fixtureUnits \in FixtureUnitCounts, length \in Lengths, pressure \in Pressures :
    /\ prev' = Before("calculatePipeSize", <<length, pressure>>)
    /\ \E call \in InBuildOf(prev', PipeSizeCalls[fixtureUnits, length, pressure]) :
         cur' = call
    /\ UNCHANGED <<fixtureUnitsTable, totalCall, component>>

CallDrainPipeSize ==
  \E dfu \in DrainageUnits, slope \in Slopes :
    /\ cur' = DrainPipeSizeCalls[dfu, slope]
    /\ prev' = Before("calculateDrainPipeSize", <<slope>>)
    /\ UNCHANGED <<fixtureUnitsTable, totalCall, component>>

CallFireHydrantFlow ==
  \E area \in Areas, constructionType \in ConstructionTypes :
    /\ cur' = FireHydrantFlowCalls[area, constructionType]
    /\ prev' = Before("calculateFireHydrantFlow", <<constructionType>>)
    /\ UNCHANGED <<fixtureUnitsTable, totalCall, component>>

CallSprinklerSystem ==
  \E area \in SprinklerAreas, hazardClass \in HazardClasses,
     ceilingHeight \in CeilingHeights :
    /\ cur' = SprinklerSystemCalls[area, hazardClass, ceilingHeight]
    /\ prev' = BeforeSprinkler(hazardClass)
    /\ UNCHANGED <<fixtureUnitsTable, totalCall, component>>

CallStandpipeSystem ==
  \E floors \in Floors, buildingHeight \in BuildingHeights :
    /\ cur' = StandpipeSystemCalls[floors, buildingHeight]
    /\ prev' = Before("calculateStandpipeSystem", <<buildingHeight>>)
    /\ UNCHANGED <<fixtureUnitsTable, totalCall, component>>

CallFirePump ==
  \E totalFlowRequired \in PumpFlows, staticPressure \in StaticPressures,
     requiredPressure \in RequiredPressures, elevation \in Elevations :
    /\ cur' = FirePumpCalls[totalFlowRequired, staticPressure,
                            requiredPressure, elevation]
    /\ prev' = Before("calculateFirePump",
                 <<staticPressure, requiredPressure, elevation>>)
    /\ UNCHANGED <<fixtureUnitsTable, totalCall, component>>

CallDuctSize ==
  \E airflow \in Airflows, velocity \in Velocities :
    /\ cur' = DuctSizeCalls[airflow, velocity]
    /\ prev' = Before("calculateDuctSize", <<velocity>>)
    /\ UNCHANGED <<fixtureUnitsTable, totalCall, component>>

CallHeatingLoad ==
  \E area \in HvacAreas, occupancy \in Occupancies,
     outdoorTemp \in OutdoorTemps, indoorTemp \in IndoorTemps :
    /\ cur' = HeatingLoadCalls[area, occupancy, outdoorTemp, indoorTemp]
    /\ prev' = Before("calculateHeatingLoad", <<occupancy, outdoorTemp, indoorTemp>>)
    /\ UNCHANGED <<fixtureUnitsTable, totalCall, component>>

CallVentilationRate ==
  \E area \in HvacAreas, occupancy \in Occupancies, spaceType \in SpaceTypes :
    /\ cur' = VentilationRateCalls[area, occupancy, spaceType]
    /\ prev' = Before("calculateVentilationRate", <<occupancy, spaceType>>)
    /\ UNCHANGED <<fixtureUnitsTable, totalCall, component>>

CallEquipmentCapacity ==
  \E coolingLoad \in CoolingLoads :
    /\ cur' = EquipmentCapacityCalls[coolingLoad]
    /\ prev' = Before("calculateEquipmentCapacity", <<>>)
    /\ UNCHANGED <<fixtureUnitsTable, totalCall, component>>

CallVoltageDrop ==
  \E current \in DropCurrents, distance \in Distances, voltage \in DropVoltages,
     wireSize \in WireSizes, phases \in Phases :
    /\ cur' = VoltageDropCalls[current, distance, voltage, wireSize, phases]
    /\ prev' = Before("calculateVoltageDrop", <<distance, voltage, wireSize, phases>>)
    /\ UNCHANGED <<fixtureUnitsTable, totalCall, component>>

\* calculateTotalFixtureUnits reads the exported table; the call is recorded
\* apart from cur, so that it falls between the two calls a property
\* compares
CallTotalFixtureUnits ==
  \E fixtures \in FixtureLists :
    /\ totalCall' = Made("calculateTotalFixtureUnits", <<>>, fixtures,
                         calculateTotalFixtureUnits(fixtureUnitsTable, fixtures), <<>>)
    /\ UNCHANGED <<cur, prev, fixtureUnitsTable, component>>

NextElectrical == CallCurrent \/ CallBreakerSize \/ CallWireSize \/ CallVoltageDrop
NextPlumbing ==
  CallFixtureUnitsToGPM \/ CallPipeSize \/ CallDrainPipeSize \/ CallTotalFixtureUnits
NextFire ==
  CallFireHydrantFlow \/ CallSprinklerSystem \/ CallStandpipeSystem \/ CallFirePump
NextHVAC ==
  CallDuctSize \/ CallHeatingLoad \/ CallVentilationRate \/ CallEquipmentCapacity

SpecElectrical == Init /\ [][NextElectrical]_vars
SpecPlumbing == Init /\ [][NextPlumbing]_vars
SpecFire == Init /\ [][NextFire]_vars
SpecHVAC == Init /\ [][NextHVAC]_vars

Next == NextElectrical \/ NextPlumbing \/ NextFire \/ NextHVAC
Spec == Init /\ [][Next]_vars

(***************************************************************************)
(* The Calculations component (components/Calculations.tsx)                *)
(*                                                                         *)
(* Each of the four cards shows its content while open: the fields of its  *)
(* form, the Run button, and the Save button once there is a result.  A    *)
(* field's onChange parses the text of the field into the form state.  A   *)
(* Save is two steps: the click passes one document to addDoc and sets the *)
(* card's saving flag, which disables the button, and the handler returns  *)
(* at its await; when the promise settles, the flag is cleared.  Between   *)
(* the two every other handler may run.  serverTimestamp() is left to the  *)
(* server.                                                                 *)
(***************************************************************************)

\* what the snapshot listener delivers: the ids of the user's projects
ProjectLists == {<<>>, <<"p1", "p2">>}

\* the characters 0 to 9
Digits == <<"0", "1", "2", "3", "4", "5", "6", "7", "8", "9">>

RECURSIVE Keys(_)
\* the text a field holds after the natural number n is typed into it, a
\* sequence of characters
Keys(n) ==
  IF n < 10 THEN <<Digits[n + 1]>> ELSE Keys(n \div 10) \o <<Digits[(n % 10) + 1]>>

\* the value of the digit c
DigitOf(c) == (CHOOSE d \in DOMAIN Digits : Digits[d] = c) - 1

RECURSIVE DigitsEnd(_, _)
\* the index after the digits text has from index i on
DigitsEnd(text, i) ==
  IF i <= Len(text) /\ text[i] \in Range(Digits) THEN DigitsEnd(text, i + 1) ELSE i

RECURSIVE DecimalOf(_)
\* the natural number a sequence of digits writes; none write 0
DecimalOf(digits) ==
  IF digits = <<>> THEN 0
  ELSE DecimalOf(SubSeq(digits, 1, Len(digits) - 1)) * 10 + DigitOf(digits[Len(digits)])

\* the index of the first digit of a text, after its sign if it has one
AfterSign(text) == IF text # <<>> /\ text[1] \in {"-", "+"} THEN 2 ELSE 1

\* n with the sign the text starts with
Signed(text, n) == IF text # <<>> /\ text[1] = "-" THEN 0 - n ELSE n

\* parseInt(text) for the text of a number field or of an option, which has
\* no white space and no 0x: the digits after the sign, up to the first
\* character that is no digit, and NaN when there are none
parseInt(text) ==
  LET end == DigitsEnd(text, AfterSign(text))
  IN  IF end = AfterSign(text) THEN NaN
      ELSE Number(Signed(text, DecimalOf(SubSeq(text, AfterSign(text), end - 1))))

\* parseFloat(text) for a text with no white space, no exponent and at most
\* places decimals, in units of 10^-places: the digits after the sign, and
\* after a point the decimals, and NaN when there is no digit
parseFloat(text, places) ==
  LET first    == AfterSign(text)
      point    == DigitsEnd(text, first)
      hasPoint == point <= Len(text) /\ text[point] = "."
      end      == IF hasPoint THEN DigitsEnd(text, point + 1) ELSE point
      decimals == IF hasPoint THEN SubSeq(text, point + 1, end - 1) ELSE <<>>
      padded   == SubSeq(decimals \o [k \in 1 .. places |-> "0"], 1, places)
  IN  IF point = first /\ decimals = <<>> THEN NaN
      ELSE Number(Signed(text, DecimalOf(SubSeq(text, first, point - 1) \o padded)))

\* parsed || otherwise: NaN and 0 are falsy
OrElse(parsed, otherwise) ==
  IF parsed.nan \/ parsed.val = 0 THEN otherwise ELSE parsed.val

\* the texts the model types into the number fields and the options it
\* chooses in the selects, for each field of the four forms: an empty field,
\* numbers, a number with decimals in an integer field, and every option
HvacTexts ==
  [area        |-> {<<>>, Keys(2000), Keys(1500)},
   occupancy   |-> {<<>>, Keys(25), Keys(12) \o <<".">> \o Keys(5)},
   spaceType   |-> {"office", "classroom", "retail", "restaurant", "warehouse", "gym"},
   outdoorTemp |-> {<<>>, Keys(100)},
   indoorTemp  |-> {<<>>, Keys(70)},
   airflow     |-> {<<>>, Keys(2000)}]
ElecTexts ==
  [connectedLoad  |-> {<<>>, Keys(100000)},
   demandFactor   |-> {<<>>, Keys(1), Keys(0) \o <<".">> \o Keys(5)},
   voltage        |-> {Keys(120), Keys(208), Keys(240), Keys(480)},
   phases         |-> {Keys(1), Keys(3)},
   powerFactor    |-> {<<>>, Keys(1), Keys(0) \o <<".">> \o Keys(9)},
   distance       |-> {<<>>, Keys(1000)},
   material       |-> {"copper", "aluminum"},
   tempRating     |-> {Keys(60), Keys(75), Keys(90)},
   transformerKVA |-> {<<>>, Keys(1000)},
   impedance      |-> {<<>>, Keys(4) \o <<".">> \o Keys(5)}]
PlumbTexts ==
  [fixtureUnits         |-> {<<>>, Keys(7), Keys(32)},
   length               |-> {Keys(2000)},
   pressureAvailable    |-> {Keys(1)},
   fixtureCount         |-> {<<>>, Keys(10)},
   drainageFixtureUnits |-> {<<>>, Keys(24)}]
FireTexts ==
  [area             |-> {<<>>, Keys(130)},
   hazardClass      |-> {"Light", "Ordinary I", "Ordinary II", "Extra"},
   ceilingHeight    |-> {<<>>, Keys(20)},
   floors           |-> {<<>>, Keys(7)},
   buildingHeight   |-> {<<>>, Keys(150)},
   staticPressure   |-> {<<>>, Keys(40)},
   requiredPressure |-> {<<>>, Keys(62)},
   elevation        |-> {<<>>, Keys(1000)},
   constructionType |-> {"Type I", "Type II", "Type III", "Type IV", "Type V"}]

\* the value the onChange of a field puts into the form state for the text
\* e.target.value; factors and the impedance in hundredths, temperatures in
\* degrees
HvacField(field, text) ==
  CASE field \in {"area", "occupancy", "airflow"} -> OrElse(parseInt(text), 0)
    [] field \in {"outdoorTemp", "indoorTemp"} -> OrElse(parseFloat(text, 0), 0)
    [] field = "spaceType" -> text
ElecField(field, text) ==
  CASE field \in {"connectedLoad", "distance", "transformerKVA"} ->
         OrElse(parseInt(text), 0)
    [] field \in {"demandFactor", "powerFactor", "impedance"} ->
         OrElse(parseFloat(text, 2), 0)
    [] field = "voltage" -> OrElse(parseInt(text), 480)
    [] field = "phases" -> IF parseInt(text) = Number(3) THEN 3 ELSE 1
    [] field = "tempRating" -> parseInt(text).val
    [] field = "material" -> text
PlumbField(field, text) == OrElse(parseInt(text), 0)
FireField(field, text) ==
  CASE field \in {"hazardClass", "constructionType"} -> text
    [] OTHER -> OrElse(parseInt(text), 0)

\* the field each card's specification edits, and the form states it
\* reaches
HvacInputStates ==
  {HvacDefaults} \cup
    {[HvacDefaults EXCEPT !.area = HvacField("area", text)] : text \in HvacTexts.area}
ElecInputStates ==
  {ElecDefaults} \cup
    {[ElecDefaults EXCEPT !.voltage = ElecField("voltage", text)] :
       text \in ElecTexts.voltage}
PlumbInputStates ==
  {PlumbDefaults} \cup
    {[PlumbDefaults EXCEPT !.fixtureUnits = PlumbField("fixtureUnits", text)] :
       text \in PlumbTexts.fixtureUnits}
FireInputStates ==
  {FireDefaults} \cup
    {[FireDefaults EXCEPT !.hazardClass = FireField("hazardClass", text)] :
       text \in FireTexts.hazardClass}

\* In the operators below a const of the handler that later calls take as
\* an argument is a bound variable, which holds its value.

\* the object runHVAC passes to setHvacResult
HvacResultOf(i) ==
  CHOOSE result \in
    { [heatingLoad       |-> calculateHeatingLoad(i.area, i.occupancy, i.outdoorTemp,
                                                  i.indoorTemp),
       coolingLoad       |-> coolingLoad,
       ventilationRate   |-> calculateVentilationRate(i.area, i.occupancy, i.spaceType),
       equipmentCapacity |-> calculateEquipmentCapacity(coolingLoad),
       ductSize          |-> calculateDuctSize(i.airflow, 1000)] :
      coolingLoad \in {calculateCoolingLoad(i.area, i.occupancy, i.outdoorTemp,
                                            i.indoorTemp)} } : TRUE

\* a quotient whose divisor is 0, for a dividend >= 0
OverZero(dividend) == IF dividend = 0 THEN NaN ELSE Infinity

\* current of runElectrical: a power factor of 0 divides the load by 0
CurrentOf(demandLoad, i) ==
  IF i.powerFactor = 0 THEN OverZero(demandLoad)
  ELSE Number(calculateCurrent(demandLoad, i.voltage, i.phases, i.powerFactor))

\* breakerSize of runElectrical: no size is >= NaN or >= Infinity, and find
\* gives undefined
BreakerSizeOf(current) ==
  IF current \in {NaN, Infinity} THEN BreakerSizes[Len(BreakerSizes)]
  ELSE calculateBreakerSize(current.val, TRUE)

\* wireSize of runElectrical: no ampacity is >= NaN or >= Infinity
WireSizeOf(current, i) ==
  IF current \in {NaN, Infinity} THEN "1000 kcmil"
  ELSE calculateWireSize(current.val, i.material, i.tempRating)

\* voltageDrop of runElectrical: Infinity times the distance 0 is NaN
VoltageDropOf(current, wireSize, i) ==
  IF current = NaN \/ (current = Infinity /\ i.distance = 0) THEN NaN
  ELSE IF current = Infinity
    THEN (IF SizeKey(wireSize) \in ObjectPrototypeKeys THEN NaN ELSE Infinity)
  ELSE calculateVoltageDrop(current.val, i.distance, i.voltage, wireSize, i.phases)

\* shortCircuitCurrent of runElectrical: an impedance of 0 divides by 0
ShortCircuitCurrentOf(i) ==
  IF i.impedance = 0 THEN OverZero(i.transformerKVA)
  ELSE Number(calculateShortCircuitCurrent(i.transformerKVA, i.voltage, i.impedance))

\* the object runElectrical passes to setElecResult
ElecResultOf(i) ==
  CHOOSE result \in
    { [demandLoad          |-> cw[1],
       current             |-> cw[2],
       breakerSize         |-> BreakerSizeOf(cw[2]),
       wireSize            |-> cw[3],
       voltageDrop         |-> VoltageDropOf(cw[2], cw[3], i),
       shortCircuitCurrent |-> ShortCircuitCurrentOf(i)] :
      cw \in {<<dc[1], dc[2], WireSizeOf(dc[2], i)>> :
                dc \in {<<demandLoad, CurrentOf(demandLoad, i)>> :
                          demandLoad \in {calculateDemandLoad(i.connectedLoad,
                                                              i.demandFactor)}}} } :
    TRUE

\* parseFloat(pipeSize) for a label of calculatePipeSize: the number before
\* the inch mark
PipeSizeNumber(pipeSize) == FDec(InchSize(pipeSize, Range(PipeSizes)), 100)

\* the object runPlumbing passes to setPlumbResult in the build math, one of
\* runPlumbingMaths(i)
PlumbResultOf(i, math) ==
  CHOOSE result \in
    { [flowRate      |-> fp[1],
       pipeSize      |-> fp[2],
       frictionLoss  |-> calculateFrictionLoss(fp[1], PipeSizeNumber(fp[2]), i.length,
                                               math),
       drainPipeSize |-> calculateDrainPipeSize(i.drainageFixtureUnits, 250),
       waterHeater   |-> calculateWaterHeaterSize(i.fixtureCount, 4)] :
      fp \in {<<fixtureUnitsToGPM(i.fixtureUnits, math),
                calculatePipeSize(i.fixtureUnits, i.length, i.pressureAvailable,
                                  math)>>} } : TRUE

\* the builds runPlumbing tells apart: those of calculatePipeSize, which has
\* the powers of fixtureUnitsToGPM, and then by the powers of
\* calculateFrictionLoss
runPlumbingMaths(i) ==
  UNION {WithPows({mfp[1]}, calculateFrictionLossPows(mfp[2], PipeSizeNumber(mfp[3]))) :
           mfp \in {<<m, fixtureUnitsToGPM(i.fixtureUnits, m),
                      calculatePipeSize(i.fixtureUnits, i.length, i.pressureAvailable,
                                        m)>> :
                      m \in calculatePipeSizeMaths(i.fixtureUnits)}}

\* the objects runPlumbing passes to setPlumbResult, one for each build
PlumbResultsOf(i) == {PlumbResultOf(i, math) : math \in runPlumbingMaths(i)}

\* the values the plumbing form's field takes: its default and what its
\* onChange makes of each text
PlumbFieldValues(field) ==
  {PlumbDefaults[field]} \cup {PlumbField(field, text) : text \in PlumbTexts[field]}
\* the states of the plumbing form
PlumbFormStates ==
  [fixtureUnits         : PlumbFieldValues("fixtureUnits"),
   length               : PlumbFieldValues("length"),
   pressureAvailable    : PlumbFieldValues("pressureAvailable"),
   fixtureCount         : PlumbFieldValues("fixtureCount"),
   drainageFixtureUnits : PlumbFieldValues("drainageFixtureUnits")]

\* the object runFire passes to setFireResult
FireResultOf(i) ==
  CHOOSE result \in
    { [sprinkler   |-> ss[1],
       standpipe   |-> ss[2],
       firePump    |-> calculateFirePump(ss[1].flowRate + ss[2].flowRate,
                                         i.staticPressure, i.requiredPressure,
                                         i.elevation),
       hydrantFlow |-> calculateFireHydrantFlow(i.area, i.constructionType)] :
      ss \in {<<calculateSprinklerSystem(i.area, i.hazardClass, i.ceilingHeight),
                calculateStandpipeSystem(i.floors, i.buildingHeight)>>} } : TRUE

\* The run handlers are pure but for the build: what each computes from the
\* form states a card's specification reaches is computed once.
HvacRuns == [i \in HvacInputStates |-> HvacResultOf(i)]
ElecRuns == [i \in ElecInputStates |-> ElecResultOf(i)]
FireRuns == [i \in FireInputStates |-> FireResultOf(i)]
\* runPlumbing is computed for every state of the form. Math.pow is called
\* with values of fixtureUnits, length and pressureAvailable only: the
\* results are computed once for these three, and fixtureCount and
\* drainageFixtureUnits then give the other two fields of the result, as in
\* PlumbResultOf.
PipeRuns ==
  [fixtureUnits \in PlumbFieldValues("fixtureUnits"), length \in PlumbFieldValues("length"),
   pressureAvailable \in PlumbFieldValues("pressureAvailable") |->
     PlumbResultsOf([PlumbDefaults EXCEPT !.fixtureUnits = fixtureUnits, !.length = length,
                                          !.pressureAvailable = pressureAvailable])]
PlumbRuns ==
  [i \in PlumbFormStates |->
     {[result EXCEPT
         !.drainPipeSize = calculateDrainPipeSize(i.drainageFixtureUnits, 250),
         !.waterHeater   = calculateWaterHeaterSize(i.fixtureCount, 4)] :
        result \in PipeRuns[i.fixtureUnits, i.length, i.pressureAvailable]}]

\* the documents the save handlers pass to addDoc, from the inputs i and
\* the result r
HvacDoc(projectId, i, r) ==
  [projectId |-> projectId, type |-> "HVAC",
   area |-> i.area, occupancy |-> i.occupancy,
   heatingLoad |-> r.heatingLoad, coolingLoad |-> r.coolingLoad,
   ventilationRate |-> r.ventilationRate,
   equipmentCapacity |-> r.equipmentCapacity, ductSize |-> r.ductSize,
   createdBy |-> userId]
ElecDoc(projectId, i, r) ==
  [projectId |-> projectId, type |-> "Electrical",
   connectedLoad |-> i.connectedLoad, demandFactor |-> i.demandFactor,
   demandLoad |-> r.demandLoad, voltage |-> i.voltage, phases |-> i.phases,
   current |-> r.current, breakerSize |-> r.breakerSize, wireSize |-> r.wireSize,
   voltageDrop |-> r.voltageDrop, shortCircuitCurrent |-> r.shortCircuitCurrent,
   createdBy |-> userId]
PlumbDoc(projectId, i, r) ==
  [projectId |-> projectId, type |-> "Plumbing",
   fixtureUnits |-> i.fixtureUnits,
   flowRate |-> r.flowRate, pipeSize |-> r.pipeSize, frictionLoss |-> r.frictionLoss,
   drainPipeSize |-> r.drainPipeSize,
   waterHeaterTank |-> r.waterHeater.tankCapacity,
   waterHeaterRecovery |-> r.waterHeater.recoveryRate,
   createdBy |-> userId]
FireDoc(projectId, i, r) ==
  [projectId |-> projectId, type |-> "Fire Protection",
   hazardClass |-> i.hazardClass,
   sprinklerFlow |-> r.sprinkler.flowRate, sprinklerHeads |-> r.sprinkler.headCount,
   sprinklerPressure |-> r.sprinkler.pressure,
   standpipeFlow |-> r.standpipe.flowRate, standpipePressure |-> r.standpipe.pressure,
   firePumpCapacity |-> r.firePump.pumpCapacity,
   firePumpPressure |-> r.firePump.pumpPressure,
   firePumpHP |-> r.firePump.horsepower,
   hydrantFlow |-> r.hydrantFlow,
   createdBy |-> userId]

\* the snapshot listener of the projects query
LoadProjects ==
  \E list \in ProjectLists :
    /\ projects' = list
    /\ selectedProjectId' =
         IF selectedProjectId = "" /\ Len(list) # 0 THEN list[1] ELSE selectedProjectId
    /\ loadingProjects' = FALSE
    /\ UNCHANGED <<open, hvacForm, elecForm, plumbForm, fireForm, added, engine>>

\* the project selector, rendered once the projects are loaded
SelectProject ==
  /\ ~loadingProjects
  /\ \E k \in DOMAIN projects : selectedProjectId' = projects[k]
  /\ UNCHANGED <<projects, loadingProjects, open, hvacForm, elecForm, plumbForm,
                 fireForm, added, engine>>

\* a click on the header of a card: setOpen(o => ({ ...o, card: !o.card }))
ToggleCard(card) ==
  /\ open' = [open EXCEPT ![card] = ~open[card]]
  /\ UNCHANGED <<selection, hvacForm, elecForm, plumbForm, fireForm, added, engine>>
ToggleCards == \E card \in DOMAIN open : ToggleCard(card)

\* onChange of a field of each form, shown while the card is open:
\* setInputs({...inputs, field: value})
EditHVACField(field) ==
  /\ open.hvac
  /\ \E text \in HvacTexts[field] :
       hvacInputs' = [hvacInputs EXCEPT ![field] = HvacField(field, text)]
  /\ UNCHANGED <<hvacResult, savingHvac, selection, open, elecForm, plumbForm, fireForm,
                 added, engine>>
EditElectricalField(field) ==
  /\ open.electrical
  /\ \E text \in ElecTexts[field] :
       elecInputs' = [elecInputs EXCEPT ![field] = ElecField(field, text)]
  /\ UNCHANGED <<elecResult, savingElec, selection, open, hvacForm, plumbForm, fireForm,
                 added, engine>>
EditPlumbingField(field) ==
  /\ open.plumbing
  /\ \E text \in PlumbTexts[field] :
       plumbInputs' = [plumbInputs EXCEPT ![field] = PlumbField(field, text)]
  /\ UNCHANGED <<plumbResult, savingPlumb, selection, open, hvacForm, elecForm, fireForm,
                 added, engine>>
EditFireField(field) ==
  /\ open.fire
  /\ \E text \in FireTexts[field] :
       fireInputs' = [fireInputs EXCEPT ![field] = FireField(field, text)]
  /\ UNCHANGED <<fireResult, savingFire, selection, open, hvacForm, elecForm, plumbForm,
                 added, engine>>

EditHVAC == \E field \in DOMAIN HvacTexts : EditHVACField(field)
EditElectrical == \E field \in DOMAIN ElecTexts : EditElectricalField(field)
EditPlumbing == \E field \in DOMAIN PlumbTexts : EditPlumbingField(field)
EditFire == \E field \in DOMAIN FireTexts : EditFireField(field)

\* the Run buttons, shown while the card is open
runHVAC ==
  /\ open.hvac
  /\ hvacResult' = IF hvacInputs \in DOMAIN HvacRuns THEN HvacRuns[hvacInputs]
                   ELSE HvacResultOf(hvacInputs)
  /\ UNCHANGED <<hvacInputs, savingHvac, selection, open, elecForm, plumbForm, fireForm,
                 added, engine>>
runElectrical ==
  /\ open.electrical
  /\ elecResult' = IF elecInputs \in DOMAIN ElecRuns THEN ElecRuns[elecInputs]
                   ELSE ElecResultOf(elecInputs)
  /\ UNCHANGED <<elecInputs, savingElec, selection, open, hvacForm, plumbForm, fireForm,
                 added, engine>>
runPlumbing ==
  /\ open.plumbing
  /\ \E result \in PlumbRuns[plumbInputs] : plumbResult' = result
  /\ UNCHANGED <<plumbInputs, savingPlumb, selection, open, hvacForm, elecForm, fireForm,
                 added, engine>>
runFire ==
  /\ open.fire
  /\ fireResult' = IF fireInputs \in DOMAIN FireRuns THEN FireRuns[fireInputs]
                   ELSE FireResultOf(fireInputs)
  /\ UNCHANGED <<fireInputs, savingFire, selection, open, hvacForm, elecForm, plumbForm,
                 added, engine>>

\* a click on a Save button, shown in the open card once there is a result
\* and disabled while the card is saving: if (!result || !selectedProjectId)
\* return; setSaving(true); addDoc(...), up to the await
saveHVAC ==
  /\ open.hvac /\ hvacResult # Null /\ ~savingHvac
  /\ IF hvacResult = Null \/ selectedProjectId = "" THEN UNCHANGED <<savingHvac, added>>
     ELSE /\ savingHvac' = TRUE
          /\ added' = HvacDoc(selectedProjectId, hvacInputs, hvacResult)
  /\ UNCHANGED <<hvacInputs, hvacResult, selection, open, elecForm, plumbForm, fireForm,
                 engine>>
saveElectrical ==
  /\ open.electrical /\ elecResult # Null /\ ~savingElec
  /\ IF elecResult = Null \/ selectedProjectId = "" THEN UNCHANGED <<savingElec, added>>
     ELSE /\ savingElec' = TRUE
          /\ added' = ElecDoc(selectedProjectId, elecInputs, elecResult)
  /\ UNCHANGED <<elecInputs, elecResult, selection, open, hvacForm, plumbForm, fireForm,
                 engine>>
savePlumbing ==
  /\ open.plumbing /\ plumbResult # Null /\ ~savingPlumb
  /\ IF plumbResult = Null \/ selectedProjectId = ""
     THEN UNCHANGED <<savingPlumb, added>>
     ELSE /\ savingPlumb' = TRUE
          /\ added' = PlumbDoc(selectedProjectId, plumbInputs, plumbResult)
  /\ UNCHANGED <<plumbInputs, plumbResult, selection, open, hvacForm, elecForm, fireForm,
                 engine>>
saveFire ==
  /\ open.fire /\ fireResult # Null /\ ~savingFire
  /\ IF fireResult = Null \/ selectedProjectId = "" THEN UNCHANGED <<savingFire, added>>
     ELSE /\ savingFire' = TRUE
          /\ added' = FireDoc(selectedProjectId, fireInputs, fireResult)
  /\ UNCHANGED <<fireInputs, fireResult, selection, open, hvacForm, elecForm, plumbForm,
                 engine>>

\* the promise of addDoc settles, fulfilled or rejected, and the save
\* handler resumes after its await: finally setSaving(false)
saveHVACSettled ==
  /\ savingHvac /\ savingHvac' = FALSE
  /\ UNCHANGED <<hvacInputs, hvacResult, selection, open, elecForm, plumbForm, fireForm,
                 added, engine>>
saveElectricalSettled ==
  /\ savingElec /\ savingElec' = FALSE
  /\ UNCHANGED <<elecInputs, elecResult, selection, open, hvacForm, plumbForm, fireForm,
                 added, engine>>
savePlumbingSettled ==
  /\ savingPlumb /\ savingPlumb' = FALSE
  /\ UNCHANGED <<plumbInputs, plumbResult, selection, open, hvacForm, elecForm, fireForm,
                 added, engine>>
saveFireSettled ==
  /\ savingFire /\ savingFire' = FALSE
  /\ UNCHANGED <<fireInputs, fireResult, selection, open, hvacForm, elecForm, plumbForm,
                 added, engine>>

NextCalculations ==
  \/ LoadProjects \/ SelectProject \/ ToggleCards
  \/ EditHVAC \/ EditElectrical \/ EditPlumbing \/ EditFire
  \/ runHVAC \/ runElectrical \/ runPlumbing \/ runFire
  \/ saveHVAC \/ saveElectrical \/ savePlumbing \/ saveFire
  \/ saveHVACSettled \/ saveElectricalSettled \/ savePlumbingSettled \/ saveFireSettled

SpecCalculations == Init /\ [][NextCalculations]_vars

\* One card at a time, with one of its fields edited: the behaviours of
\* SpecCalculations in which every click and every edit is made in that
\* card and field.
NextHvacCard ==
  \/ LoadProjects \/ SelectProject \/ ToggleCard("hvac") \/ EditHVACField("area")
  \/ runHVAC \/ saveHVAC \/ saveHVACSettled
NextElecCard ==
  \/ LoadProjects \/ SelectProject \/ ToggleCard("electrical")
  \/ EditElectricalField("voltage") \/ runElectrical \/ saveElectrical
  \/ saveElectricalSettled
NextPlumbCard ==
  \/ LoadProjects \/ SelectProject \/ ToggleCard("plumbing")
  \/ EditPlumbingField("fixtureUnits") \/ runPlumbing \/ savePlumbing
  \/ savePlumbingSettled
NextFireCard ==
  \/ LoadProjects \/ SelectProject \/ ToggleCard("fire") \/ EditFireField("hazardClass")
  \/ runFire \/ saveFire \/ saveFireSettled

SpecHvacCard == Init /\ [][NextHvacCard]_vars
SpecElecCard == Init /\ [][NextElecCard]_vars
SpecPlumbCard == Init /\ [][NextPlumbCard]_vars
SpecFireCard == Init /\ [][NextFireCard]_vars

(***************************************************************************)
(* Properties                                                              *)
(***************************************************************************)

PipeSizeOf(c) == InchSize(c.out, Range(PipeSizes))
DrainSizeOf(c) == InchSize(c.out, {drainCapacities[i].size : i \in DOMAIN drainCapacities})

IsWireCall(c) == c.fn = "calculateWireSize"
IsBreakerCall(c) == c.fn = "calculateBreakerSize"
IsPipeCall(c) == c.fn = "calculatePipeSize"

\* flowRate, diameter and frictionLoss of a calculatePipeSize call, in the
\* build of the call
DemandOf(c) == CHOOSE demand \in PipeDemands[c.x] : demand.math = c.math
IsDrainCall(c) == c.fn = "calculateDrainPipeSize"

\* the position in the size order 14, 12, ..., 1, 1/0, ..., 4/0, 250, ...,
\* 1000 of the conductor a label names (the key followed by " AWG" or
\* " kcmil"), 0 when the label names none
WireRank(label) ==
  LET hits == {i \in DOMAIN copperAmpacity75C :
                 \/ label = copperAmpacity75C[i].key \o " AWG"
                 \/ label = copperAmpacity75C[i].key \o " kcmil"}
  IN  IF hits = {} THEN 0 ELSE CHOOSE i \in hits : TRUE

\* the corrected ampacity, in hundredths, of the conductor at position i of
\* the size order: the 75 C copper ampacity, times 0.62 rounded for
\* aluminum, times the temperature factor
CorrectedAmpacity(i, material, tempRating) ==
  LET copper == copperAmpacity75C[i].amp
      base   == IF material = "copper" THEN copper ELSE (copper * 62 + 50) \div 100
  IN  base * (CASE tempRating = 60 -> 88 [] tempRating = 90 -> 104 [] OTHER -> 100)

\* the position in the size order of the smallest conductor whose corrected
\* ampacity is >= current / 0.8, the last position when there is none
SmallestAdequate(current10, material, tempRating) ==
  LET ok == {i \in DOMAIN copperAmpacity75C :
               CorrectedAmpacity(i, material, tempRating) * 8 >= current10 * 100}
  IN  IF ok = {} THEN Len(copperAmpacity75C)
      ELSE CHOOSE i \in ok : \A j \in ok : i <= j

\* C1: calculateWireSize returns the smallest conductor, in the size order
\* 14, 12, ..., 1000, whose corrected ampacity is >= current / 0.8, and the
\* largest tabulated size when no size suffices.
C1_WireSmallestAdequate ==
  IsWireCall(cur) =>
    WireRank(cur.out) = SmallestAdequate(cur.x, cur.fixed[1], cur.fixed[2])

\* C2: whenever the diameter computed from the flow exceeds 12 in,
\* calculatePipeSize returns the largest entry of the ladder, 12 in, for
\* every length and available pressure.
C2_PipeLadderExhaustion ==
  (IsPipeCall(cur) /\ FLess(FNum(12), DemandOf(cur).diameter))
    => PipeSizeOf(cur) = 1200

\* C3: for fixed length and available pressure calculatePipeSize is
\* monotonic non-decreasing in fixtureUnits, and every size returned is a
\* member of the ladder.
C3_PipeSizeMonotonic ==
  /\ IsPipeCall(cur) => PipeSizeOf(cur) \in Range(PipeSizes)
  /\ (IsPipeCall(prev) /\ IsPipeCall(cur) /\ prev.x <= cur.x)
       => PipeSizeOf(prev) <= PipeSizeOf(cur)

\* C4: for fixed material and temperature rating calculateWireSize is
\* monotonic non-decreasing in current with respect to conductor size, and
\* every label returned names an entry of the ampacity table.
C4_WireSizeMonotonic ==
  /\ IsWireCall(cur) => WireRank(cur.out) # 0
  /\ (IsWireCall(prev) /\ IsWireCall(cur) /\ prev.x <= cur.x)
       => WireRank(prev.out) <= WireRank(cur.out)

\* C4 witness: two calls with rising current, the second one answered by
\* the fallback past the end of the table, the first by an entry of it
C4_Witness ==
  /\ IsWireCall(prev) /\ IsWireCall(cur) /\ prev.x < cur.x
  /\ cur.out = "1000 kcmil"
  /\ WireRank(prev.out) < WireRank(cur.out)
  /\ Len(prev.scan) < Len(copperAmpacity75C)

IsHydrantScenario(c) ==
  c.fn = "calculateFireHydrantFlow" /\ c.x = 10000 /\ c.fixed = <<"Type III">>

\* C5 as stated: calculateFireHydrantFlow(10000, 'Type III') returns 1800.
C5_HydrantScenario_Original == IsHydrantScenario(cur) => cur.out = Number(1800)

\* C5 as amended: calculateFireHydrantFlow(10000, 'Type III') returns 1750,
\* the multiple of 250 nearest to 1.0 * sqrt(10000) * 18 = 1800.
C5_HydrantScenario == IsHydrantScenario(cur) => cur.out = Number(1750)

\* C5 witness: the scenario's call has been made
C5_Witness == IsHydrantScenario(cur)

IsCurrentScenario(c) ==
  c.fn = "calculateCurrent" /\ c.x = 50000 /\ c.fixed = <<480, 3, 85>>

\* C6 as stated: calculateCurrent(50000, 480, 3, 0.85) returns 70.9 A.
C6_CurrentScenario_Original == IsCurrentScenario(cur) => cur.out = 709

\* C6 as amended: calculateCurrent(50000, 480, 3, 0.85) returns 70.8 A,
\* 50000 / (sqrt(3) * 480 * 0.85) = 70.75... rounded to one decimal.
C6_CurrentScenario == IsCurrentScenario(cur) => cur.out = 708

\* C6 witness: the scenario's call has been made
C6_Witness == IsCurrentScenario(cur)

IsGPMScenario(c) == c.fn = "fixtureUnitsToGPM" /\ c.x = 40

\* C7 as stated: fixtureUnitsToGPM(40) takes the wsfu <= 50 branch
\* (40^0.45 * 8) and its value rounds to 37.9 GPM.
C7_GPMScenario_Original ==
  IsGPMScenario(cur) =>
    /\ cur.out = FMul(Pow(cur.math, FNum(40), FDec(45, 100)), FNum(8))
    /\ FRound(FMul(cur.out, FNum(10))) = 379

\* C7 as amended: fixtureUnitsToGPM(40) takes the wsfu <= 50 branch
\* (40^0.45 * 8) and its value rounds to 42.1 GPM.
C7_GPMScenario ==
  IsGPMScenario(cur) =>
    /\ cur.out = FMul(Pow(cur.math, FNum(40), FDec(45, 100)), FNum(8))
    /\ FRound(FMul(cur.out, FNum(10))) = 421

\* C7 witness: the scenario's call has been made
C7_Witness == IsGPMScenario(cur)

\* C8: in every size table a first-entry->=-requirement selection scans
\* (breaker amperages, corrected wire ampacities, pipe diameters, DFU
\* capacities), the thresholds are strictly increasing in the order in
\* which the selection examines the entries.
C8_ScanStrictlyIncreasing ==
  \A i \in 1 .. Len(cur.scan) - 1 : cur.scan[i] < cur.scan[i + 1]

\* the smallest breaker of the ladder that is >= the required rating
\* (current / 0.8 when continuous, current otherwise), 1200 when the
\* required rating exceeds 1200
SmallestBreaker(current10, isContinuous) ==
  LET ok == {s \in Range(BreakerSizes) :
               IF isContinuous THEN s * 8 >= current10 ELSE s * 10 >= current10}
  IN  IF ok = {} THEN 1200 ELSE CHOOSE s \in ok : \A t \in ok : s <= t

\* C9: calculateBreakerSize returns the smallest entry of the breaker
\* ladder that is >= the required rating, and 1200 when the required rating
\* exceeds 1200; the result is a ladder member and is monotonic
\* non-decreasing in current for a fixed continuous flag.
C9_BreakerSize ==
  /\ IsBreakerCall(cur) =>
       /\ cur.out = SmallestBreaker(cur.x, cur.fixed[1])
       /\ cur.out \in Range(BreakerSizes)
  /\ (IsBreakerCall(prev) /\ IsBreakerCall(cur) /\ prev.x <= cur.x)
       => prev.out <= cur.out

\* C9 witness: a continuous load exactly at 80% of a breaker's rating gets
\* that breaker, and the next call's larger load, its required rating past
\* 1200 A, gets the 1200 A breaker
C9_Witness ==
  /\ IsBreakerCall(prev) /\ IsBreakerCall(cur) /\ cur.fixed = <<TRUE>>
  /\ prev.x = 160 /\ prev.out = 20
  /\ cur.x > 9600 /\ cur.out = 1200

\* cap >= dfu / sqrt(slope / 0.25), compared exactly on the squares:
\* cap^2 * (slope / 0.125) >= 2 * dfu^2
CapacityCovers(cap, dfu, slope1000) ==
  cap * cap * (slope1000 \div 125) >= 2 * dfu * dfu

\* the first size of the drain ladder whose DFU capacity is >= the
\* slope-adjusted DFU, 12 in when no capacity suffices
FirstDrainSize(dfu, slope1000) ==
  LET ok == {i \in DOMAIN drainCapacities :
               CapacityCovers(drainCapacities[i].dfu, dfu, slope1000)}
  IN  IF ok = {} THEN 1200
      ELSE drainCapacities[CHOOSE i \in ok : \A j \in ok : i <= j].size

\* C10: for dfu >= 0 and slope > 0 calculateDrainPipeSize returns the first
\* size of the ladder whose DFU capacity is >= dfu / sqrt(slope / 0.25),
\* and 12 in when no capacity suffices; for a fixed slope it is monotonic
\* non-decreasing in dfu.
C10_DrainPipeSize ==
  /\ IsDrainCall(cur) => DrainSizeOf(cur) = FirstDrainSize(cur.x, cur.fixed[1])
  /\ (IsDrainCall(prev) /\ IsDrainCall(cur) /\ prev.x <= cur.x)
       => DrainSizeOf(prev) <= DrainSizeOf(cur)

\* C10 witness: on a 1/2" slope a load above the 3" capacity but within it
\* after the slope adjustment gets the 3" pipe, and the next call's load,
\* beyond the 12" capacity even after the adjustment, gets the 12" pipe
C10_Witness ==
  /\ IsDrainCall(prev) /\ IsDrainCall(cur) /\ cur.fixed = <<500>>
  /\ prev.x = 24 /\ prev.out = "3\""
  /\ cur.x > 5600 /\ cur.out = "12\"" /\ Len(cur.scan) = Len(drainCapacities)

IsDuctCall(c) == c.fn = "calculateDuctSize"

\* the diameter 12 * sqrt(4 * (airflow / velocity) / pi) is certainly below
\* m inches: 576 * airflow < m^2 * velocity * pi, decided with 333/106 < pi
CertainlyBelow(airflow, velocity, m) ==
  576 * airflow * 106 < m * m * velocity * 333

\* the diameter is certainly above m inches, decided with pi < 355/113
CertainlyAbove(airflow, velocity, m) ==
  576 * airflow * 113 > m * m * velocity * 355

\* the entry at position i of the duct ladder is a closest one to the
\* diameter: the diameter lies between the midpoints to its two neighbours
ClosestEntry(i, airflow, velocity) ==
  /\ i > 1 =>
       ~CertainlyBelow(airflow, velocity, (DuctSizes[i - 1] + DuctSizes[i]) \div 2)
  /\ i < Len(DuctSizes) =>
       ~CertainlyAbove(airflow, velocity, (DuctSizes[i] + DuctSizes[i + 1]) \div 2)

\* C11: for airflow >= 0 and velocity > 0 calculateDuctSize returns a
\* member of the duct ladder that minimises |entry - d| over the ladder,
\* d = 12 * sqrt(4 * (airflow / velocity) / pi): the closest entry, not the
\* next larger one.
C11_DuctSizeClosest ==
  IsDuctCall(cur) =>
    \E i \in DOMAIN DuctSizes :
      cur.out = DuctSizes[i] /\ ClosestEntry(i, cur.x, cur.fixed[1])

\* C11 witness: a diameter between 12 and 13 in (1200 CFM at 1500 FPM,
\* 12.1 in) is snapped down to 12 in, not up to 14 in
C11_Witness ==
  /\ IsDuctCall(cur) /\ cur.x = 1200 /\ cur.fixed = <<1500>> /\ cur.out = 12
  /\ FLess(FNum(12), DuctDiameter(1200, 1500))

\* C12: for a fixed velocity > 0 calculateDuctSize is monotonic
\* non-decreasing in airflow.
C12_DuctSizeMonotonic ==
  (IsDuctCall(prev) /\ IsDuctCall(cur) /\ prev.x <= cur.x) => prev.out <= cur.out

\* C12 witness: two calls with rising airflow at one velocity, the first
\* answered by the smallest size, the second by the largest
C12_Witness ==
  /\ IsDuctCall(prev) /\ IsDuctCall(cur) /\ prev.x < cur.x
  /\ prev.out = DuctSizes[1] /\ cur.out = DuctSizes[Len(DuctSizes)]

IsGPMCall(c) == c.fn = "fixtureUnitsToGPM"

\* C13: fixtureUnitsToGPM returns 0 for every wsfu <= 0 and is strictly
\* increasing in wsfu over wsfu > 0, also when the two arguments lie in
\* different pieces of the piecewise definition (breakpoints 10, 50, 200).
C13_GPMStrictlyIncreasing ==
  /\ (IsGPMCall(cur) /\ cur.x <= 0) => cur.out = Zero
  /\ (IsGPMCall(prev) /\ IsGPMCall(cur) /\ 0 < prev.x /\ prev.x < cur.x)
       => FLess(prev.out, cur.out)

\* C13 witness: two calls on either side of the breakpoint wsfu = 10, the
\* second one's flow the larger
C13_Witness ==
  /\ IsGPMCall(prev) /\ IsGPMCall(cur)
  /\ prev.x = 10 /\ cur.x = 11 /\ FLess(prev.out, cur.out)

\* a call of calculateHeatingLoad
IsHeatingCall(c) == c.fn = "calculateHeatingLoad"

\* max(0, round(30*area*td/70 + 0.018*area*td - 250*occupancy)) in exact
\* arithmetic: the sum is (1563*area*td - 875000*occupancy) / 3500, and
\* round(n / 3500) is the floor of (2n + 3500) / 7000
HeatingLoadFormula(area, occupancy, outdoorTemp, indoorTemp) ==
  LET n == 1563 * area * (indoorTemp - outdoorTemp) - 875000 * occupancy
  IN  Max0((2 * n + 3500) \div 7000)

\* C14: calculateHeatingLoad(area, occupancy, outdoorTemp, indoorTemp) is
\* max(0, round(30*area*(indoorTemp - outdoorTemp)/70
\* + 0.018*area*(indoorTemp - outdoorTemp) - 250*occupancy)); so it is >= 0,
\* and it is 28760 for (1000, 10, 0, 70).
C14_HeatingLoad ==
  IsHeatingCall(cur) =>
    /\ cur.out = HeatingLoadFormula(cur.x, cur.fixed[1], cur.fixed[2], cur.fixed[3])
    /\ cur.out >= 0
    /\ (cur.x = 1000 /\ cur.fixed = <<10, 0, 70>>) => cur.out = 28760

\* a call of calculateEquipmentCapacity
IsEquipmentCall(c) == c.fn = "calculateEquipmentCapacity"

\* C15: for every coolingLoad, positive, zero or negative,
\* calculateEquipmentCapacity returns the smallest multiple of 0.5 that is
\* >= coolingLoad / 12000: with r the result (here in tenths of a ton),
\* 2r is an integer and r - 0.5 < coolingLoad / 12000 <= r; 48000 gives 4.0.
C15_EquipmentCapacityCeiling ==
  IsEquipmentCall(cur) =>
    /\ cur.out % 5 = 0
    /\ (cur.out - 5) * 1200 < cur.x
    /\ cur.x <= cur.out * 1200
    /\ cur.x = 48000 => cur.out = 40

\* 49500 BTU/hr (4.125 tons) gives 4.5 tons, after 48000 gave 4.0 and a
\* negative load gave a capacity that is not positive
C15_Witness ==
  /\ IsEquipmentCall(cur) /\ cur.x = 49500 /\ cur.out = 45
  /\ IsEquipmentCall(prev) /\ prev.x < 0 /\ prev.out <= 0

\* a call of calculateVentilationRate
IsVentilationCall(c) == c.fn = "calculateVentilationRate"

\* round(5 * occupancy + 0.06 * area) in exact arithmetic
OfficeVentilation(area, occupancy) == (2 * (500 * occupancy + 6 * area) + 100) \div 200

\* C17: for every spaceType that is not one of the six table keys office,
\* classroom, retail, restaurant, warehouse, gym, calculateVentilationRate
\* returns the office result round(5 * occupancy + 0.06 * area), a number.
C17_VentilationFallback ==
  (IsVentilationCall(cur) /\ ~HasRate(cur.fixed[2])) =>
    cur.out = Number(OfficeVentilation(cur.x, cur.fixed[1]))

\* a call of calculateFireHydrantFlow
IsHydrantCall(c) == c.fn = "calculateFireHydrantFlow"

\* C16: for every buildingArea, zero and negative areas included, and every
\* construction type, calculateFireHydrantFlow returns a multiple of 250 in
\* the closed range [500, 12000].
C16_HydrantFlowRange ==
  IsHydrantCall(cur) =>
    /\ ~cur.out.nan
    /\ cur.out.val % 250 = 0
    /\ 500 <= cur.out.val /\ cur.out.val <= 12000

\* a call of calculateSprinklerSystem with one of the four hazard classes
IsSprinklerCall(c) ==
  c.fn = "calculateSprinklerSystem" /\ c.fixed[1] \in HazardClassKeys

\* round(n / 100) for an integer n >= 0
RoundHundredths(n) == (2 * n + 100) \div 200

\* the larger of two integers
Larger(a, b) == IF a > b THEN a ELSE b

\* C18: for every area > 0 and each of the four hazard classes,
\* calculateSprinklerSystem returns headCount = ceil(area / coverage), that
\* is headCount * coverage >= area > (headCount - 1) * coverage, and
\* flowRate = round(max(1500, 5 * coverage) * density); for (20000,
\* 'Ordinary I', 15) it returns coverage 130, density 0.15, headCount 154
\* and flowRate 225.
C18_SprinklerHeadsAndFlow ==
  (IsSprinklerCall(cur) /\ cur.x > 0) =>
    /\ cur.out.headCount * cur.out.coverage >= cur.x
    /\ cur.x > (cur.out.headCount - 1) * cur.out.coverage
    /\ cur.out.flowRate =
         RoundHundredths(Larger(1500, 5 * cur.out.coverage) * cur.out.density)
    /\ (cur.x = 20000 /\ cur.fixed = <<"Ordinary I", 15>>) =>
         /\ cur.out.coverage = 130 /\ cur.out.density = 15
         /\ cur.out.headCount = 154 /\ cur.out.flowRate = 225

\* the scenario's call, 154 heads, after a call with 131 square feet, one
\* more than one head covers, returned 2 heads
C18_Witness ==
  /\ IsSprinklerCall(cur) /\ cur.x = 20000 /\ cur.fixed = <<"Ordinary I", 15>>
  /\ cur.out.headCount = 154
  /\ IsSprinklerCall(prev) /\ prev.x = 131 /\ prev.out.headCount = 2

\* a call of calculateStandpipeSystem
IsStandpipeCall(c) == c.fn = "calculateStandpipeSystem"

\* the smaller of two integers
Smaller(a, b) == IF a < b THEN a ELSE b

\* C19: calculateStandpipeSystem returns flowRate 500 for floors <= 3 and
\* min(1250, 500 + (floors - 3) * 250) otherwise; for every integer floors
\* the flow rate lies in [500, 1250] and is monotonic non-decreasing in
\* floors.
C19_StandpipeFlowRate ==
  IsStandpipeCall(cur) =>
    /\ cur.x <= 3 => cur.out.flowRate = 500
    /\ cur.x > 3 => cur.out.flowRate = Smaller(1250, 500 + (cur.x - 3) * 250)
    /\ 500 <= cur.out.flowRate /\ cur.out.flowRate <= 1250
    /\ (IsStandpipeCall(prev) /\ prev.x <= cur.x) =>
         prev.out.flowRate <= cur.out.flowRate

\* 7 floors give the cap, 1250 GPM, after 3 floors gave 500 GPM
C19_Witness ==
  /\ IsStandpipeCall(cur) /\ cur.x = 7 /\ cur.out.flowRate = 1250
  /\ IsStandpipeCall(prev) /\ prev.x = 3 /\ prev.out.flowRate = 500

\* a call of calculateFirePump
IsPumpCall(c) == c.fn = "calculateFirePump"

\* C20: for every total flow >= 0 calculateFirePump returns a pumpCapacity
\* that is a multiple of 100 with
\* 1.5 * totalFlow <= pumpCapacity < 1.5 * totalFlow + 100.
C20_PumpCapacityMargin ==
  (IsPumpCall(cur) /\ cur.x >= 0) =>
    /\ cur.out.pumpCapacity % 100 = 0
    /\ 3 * cur.x <= 2 * cur.out.pumpCapacity
    /\ 2 * cur.out.pumpCapacity < 3 * cur.x + 200

\* 67 GPM, whose 150% is 100.5 GPM, gives 200 GPM, after the form's default
\* demand of 725 GPM gave 1100 GPM
C20_Witness ==
  /\ IsPumpCall(cur) /\ cur.x = 67 /\ cur.out.pumpCapacity = 200
  /\ IsPumpCall(prev) /\ prev.x = 725 /\ prev.out.pumpCapacity = 1100

\* the pressure deficit of a pump call in thousandths of a PSI:
\* requiredPressure - staticPressure + 0.433 * elevation + 0.15 * elevation
DeficitThousandths(c) == 1000 * (c.fixed[2] - c.fixed[1]) + 583 * c.fixed[3]

\* C21: calculateFirePump returns a pumpPressure that is a non-negative
\* multiple of 5: 0 whenever the deficit requiredPressure - staticPressure
\* + 0.433 * elevation + 0.15 * elevation is <= 0, and otherwise the least
\* multiple of 5 that is >= the deficit.
C21_PumpPressure ==
  IsPumpCall(cur) =>
    /\ cur.out.pumpPressure >= 0
    /\ cur.out.pumpPressure % 5 = 0
    /\ DeficitThousandths(cur) <= 0 => cur.out.pumpPressure = 0
    /\ DeficitThousandths(cur) > 0 =>
         /\ 1000 * cur.out.pumpPressure >= DeficitThousandths(cur)
         /\ 1000 * (cur.out.pumpPressure - 5) < DeficitThousandths(cur)

\* the form's default pressures (deficit 77.49 PSI) give 80 PSI
C21_Witness ==
  /\ IsPumpCall(cur) /\ cur.fixed = <<60, 120, 30>>
  /\ cur.out.pumpPressure = 80

\* C25: the pump type is a total function of the returned capacity and
\* pressure: 'Horizontal Split Case' exactly when capacity <= 1500 and
\* pressure <= 100, 'Vertical Turbine' exactly when capacity <= 1000 and
\* pressure > 100, 'Horizontal Split Case (Large)' in every remaining case.
C25_PumpType ==
  IsPumpCall(cur) =>
    LET capacity == cur.out.pumpCapacity
        pressure == cur.out.pumpPressure
    IN  /\ cur.out.pumpType = "Horizontal Split Case"
             <=> (capacity <= 1500 /\ pressure <= 100)
        /\ cur.out.pumpType = "Vertical Turbine"
             <=> (capacity <= 1000 /\ pressure > 100)
        /\ cur.out.pumpType = "Horizontal Split Case (Large)"
             <=> (capacity > 1500 \/ (capacity > 1000 /\ pressure > 100))

\* a vertical turbine, after a larger demand at the same pressures gave a
\* large horizontal split case pump of no more than 1500 GPM
C25_Witness ==
  /\ IsPumpCall(cur) /\ cur.out.pumpType = "Vertical Turbine"
  /\ IsPumpCall(prev) /\ prev.out.pumpType = "Horizontal Split Case (Large)"
  /\ prev.out.pumpCapacity <= 1500

\* a call of calculateSprinklerSystem
IsAnySprinklerCall(c) == c.fn = "calculateSprinklerSystem"

\* round(10 + 0.433 * ceilingHeight + 3) in exact arithmetic
OrdinaryIPressure(ceilingHeight) == (2 * (13000 + 433 * ceilingHeight) + 1000) \div 2000

\* C27: calculateSprinklerSystem called with a hazard class that is not one
\* of Light, Ordinary I, Ordinary II, Extra returns the Ordinary I values:
\* density 0.15, coverage 130 and the pressure round(10 + 0.433 *
\* ceilingHeight + 3), every numeric field a finite number.
C27_SprinklerFallback ==
  (IsAnySprinklerCall(cur) /\ cur.fixed[1] \notin HazardClassKeys) =>
    /\ cur.out.density = 15
    /\ cur.out.coverage = 130
    /\ cur.out.pressure = Number(OrdinaryIPressure(cur.fixed[2]))

IsDropCall(c) == c.fn = "calculateVoltageDrop"

\* the limbs of a natural number below 2^31, and the product of two such
\* numbers
Limbs(n) == <<n % Base, (n \div Base) % Base, n \div (Base * Base), 0>>
BigProduct(a, b) == Carried(MulCols(Limbs(a), Limbs(b)), 1, 0)

\* With x = (k / scale) * current * R * (distance / 1000) / voltage * 100 in
\* hundredths, that is (k * current10 * R4 * distance) / (scale * 10^4 *
\* voltage) for the current in tenths and R in ten-thousandths:
\* h - 1/2 <= x, and x < h + 1/2
DropAtLeast(c, h, k, scale) ==
  \/ h = 0
  \/ ~BigLess(BigProduct(2 * k * c.x, Resistance(SizeKey(c.fixed[3])) * c.fixed[1]),
              BigProduct((2 * h - 1) * c.fixed[2], scale * 10000))
DropBelow(c, h, k, scale) ==
  BigLess(BigProduct(2 * k * c.x, Resistance(SizeKey(c.fixed[3])) * c.fixed[1]),
          BigProduct((2 * h + 1) * c.fixed[2], scale * 10000))

\* C22: calculateVoltageDrop returns, rounded to 2 decimals,
\* 100 * k * current * R * (distance / 1000) / voltage with k = sqrt(3) for
\* phases = 3 and k = 2 otherwise, R the tabulated resistance of the gauge
\* left by stripping ' AWG' or ' kcmil', and R = 0.1 for every gauge not in
\* the table.  (sqrt(3) lies between 1.7320 and 1.7321.)
C22_VoltageDrop ==
  IsDropCall(cur) =>
    /\ ~cur.out.nan
    /\ cur.fixed[4] # 3 =>
         DropAtLeast(cur, cur.out.val, 2, 1) /\ DropBelow(cur, cur.out.val, 2, 1)
    /\ cur.fixed[4] = 3 =>
         /\ DropAtLeast(cur, cur.out.val, 17321, 10000)
         /\ DropBelow(cur, cur.out.val, 17320, 10000)

\* C26: every label calculateWireSize returns, the fallback included, is a
\* key of calculateVoltageDrop's resistance table once ' AWG' or ' kcmil' is
\* stripped, so the electrical run never uses the 0.1 ohm fallback.
C26_WireLabelHasResistance ==
  IsWireCall(cur) => HasResistance(SizeKey(cur.out))

\* C29: calculateWireSize never returns an undersized conductor: a label
\* produced by the table scan names an entry whose corrected ampacity is
\* >= current / 0.8, and the fallback '1000 kcmil' is returned only when no
\* tabulated size has a corrected ampacity >= current / 0.8.
C29_WireNeverUndersized ==
  IsWireCall(cur) =>
    LET adequate == {i \in DOMAIN copperAmpacity75C :
                       CorrectedAmpacity(i, cur.fixed[1], cur.fixed[2]) * 8
                         >= cur.x * 100}
    IN  /\ cur.out # "1000 kcmil" => WireRank(cur.out) \in adequate
        /\ cur.out = "1000 kcmil" => adequate = {}

\* the fallback for a current no size carries, after a call that the scan
\* answered with an entry
C29_Witness ==
  /\ IsWireCall(cur) /\ cur.out = "1000 kcmil"
  /\ IsWireCall(prev) /\ prev.out # "1000 kcmil" /\ prev.x > 0

\* the ranks in the ladder of the standard sizes >= a diameter, and the rank
\* of the size a calculatePipeSize call returned
PipeRanksAtLeast(diameter) ==
  {k \in DOMAIN PipeSizes : ~FLess(PipeSizeNumbers[k], diameter)}
PipeRankOf(c) == CHOOSE k \in DOMAIN PipeSizes : PipeSizes[k] = PipeSizeOf(c)

\* the hundredths of a PSI per 100 ft in a friction loss that is a number
LossHundredths(loss) == FRound(FMul(loss.val, FNum(100)))

\* the rank a calculatePipeSize call must return for the least adequate
\* rank base and the friction loss: base for a loss of at most half the
\* available pressure, the next rank, if there is one, for a larger loss,
\* and one of the two for a loss that is no number
BumpedOnce(c, base, loss) ==
  /\ PipeSizeOf(c) \in Range(PipeSizes)
  /\ PipeRankOf(c) \in {base, base + 1}
  /\ (~loss.nan /\ LossHundredths(loss) * c.fixed[1] <= c.fixed[2] * 5000) =>
       PipeRankOf(c) = base
  /\ (~loss.nan /\ LossHundredths(loss) * c.fixed[1] > c.fixed[2] * 5000) =>
       PipeRankOf(c) = IF base < Len(PipeSizes) THEN base + 1 ELSE base

\* C24: calculatePipeSize bumps at most once: with base the first standard
\* size >= the computed diameter, the result is base when frictionLoss *
\* length / 100 is <= 50% of pressureAvailable and the entry right after
\* base when it exceeds 50%; the result is never more than one step above
\* base and never beyond 12 in (the last entry stays).
C24_PipeBumpsOnce ==
  IsPipeCall(cur) =>
    \A demand \in {DemandOf(cur)} :
      \A adequate \in {PipeRanksAtLeast(demand.diameter)} :
        \A base \in {k \in adequate : \A j \in adequate : k <= j} :
          BumpedOnce(cur, base, demand.frictionLoss)

\* a call bumped from 1 in to 1.25 in by a loss above half the available
\* pressure, then one whose base is the last entry, 12 in
C24_Witness ==
  /\ IsPipeCall(prev) /\ prev.x = 7 /\ prev.fixed = <<2000, 1>>
  /\ PipeSizeOf(prev) = 125
  /\ PipeRanksAtLeast(DemandOf(prev).diameter) = 3 .. Len(PipeSizes)
  /\ IsPipeCall(cur) /\ cur.x = 200000 /\ PipeSizeOf(cur) = 1200
  /\ PipeRanksAtLeast(DemandOf(cur).diameter) = {Len(PipeSizes)}

\* C30: in the Calculations component a Save writes a document only when a
\* result exists and a project is selected, and every document written by
\* saveHVAC, saveElectrical, savePlumbing or saveFire stores results that
\* were computed from the inputs stored in the same document.
C30_SavedResultsMatchInputs ==
  /\ added # NoDoc => added.projectId # ""
  /\ added.type = "HVAC" =>
       \E i \in HvacInputStates : added = HvacDoc(added.projectId, i, HvacRuns[i])
  /\ added.type = "Electrical" =>
       \E i \in ElecInputStates : added = ElecDoc(added.projectId, i, ElecRuns[i])
  /\ added.type = "Plumbing" =>
       \E i \in PlumbInputStates : \E r \in PlumbRuns[i] :
         added = PlumbDoc(added.projectId, i, r)
  /\ added.type = "Fire Protection" =>
       \E i \in FireInputStates : added = FireDoc(added.projectId, i, FireRuns[i])

====
